---- MODULE Spec2Model ----
(***************************************************************************)
(* A model of redis-streams-rs (src/src/types.rs, src/src/commands.rs):    *)
(* the argument encoders (StreamMaxlen, StreamClaimOptions,                *)
(* StreamReadOptions), the command surface that uses them, and the reply   *)
(* decoders (FromRedisValue for the Stream*Reply types).                   *)
(*                                                                         *)
(* Encoders and decoders are pure functions: each specification draws the  *)
(* inputs from bounded sets, and its actions apply the code's functions.   *)
(* Byte strings written to a command are TLA+ strings; byte strings read   *)
(* from a reply are sequences of one-character strings, so that parsing    *)
(* them is computed digit by digit.                                        *)
(***************************************************************************)
EXTENDS Integers, Sequences, FiniteSets, TLC

VARIABLES
    target,         \* which object this run exercises
    pc,             \* position of the run: "build"; "sent" while a
                    \* command function waits for the reply, "issued"
                    \* once it has returned; "done", "counted"
    claim_options,  \* the StreamClaimOptions value under construction
    read_options,   \* the StreamReadOptions value under construction
    maxlen,         \* the StreamMaxlen value
    calls,          \* the builder and command calls made so far, oldest
                    \* first
    args,           \* tokens written by a bare write_redis_args call
    command,        \* the command issued: [name, args]
    reply,          \* the wire Value received by a command or handed to
                    \* a decoder
    result,         \* what the command or the decoder returned
    claim_reply,    \* what the StreamClaimReply decoder returned
    counted,        \* what StreamPendingReply::count returned
    rerun,          \* what decoding the same reply a second time returned
    skips_bad_items \* whether the linked redis crate drops the items of a
                    \* sequence that fail to convert (its older releases)
                    \* or fails the whole sequence on the first of them

vars == <<target, pc, claim_options, read_options, maxlen, calls, args,
          command, reply, result, claim_reply, counted, rerun,
          skips_bad_items>>

(***************************************************************************)
(* Bounds of the model.                                                    *)
(***************************************************************************)
MaxCalls == 4

\* Numeric option values: one of one digit, one of two.
Nums == {2, 10}

None == [some |-> FALSE]
Some(x) == [some |-> TRUE, v |-> x]

\* redis::Value.
Value_Nil == [t |-> "Nil"]
Value_Int(n) == [t |-> "Int", n |-> n]
Value_Data(bytes) == [t |-> "Data", bytes |-> bytes]
Value_Bulk(items) == [t |-> "Bulk", items |-> items]

NoCommand == [name |-> "", args |-> <<>>]
NoResult == [kind |-> "None"]

(***************************************************************************)
(* format!("{}", n) and usize::write_redis_args: the decimal text of n.    *)
(***************************************************************************)
Digit(d) ==
    CASE d = 0 -> "0" [] d = 1 -> "1" [] d = 2 -> "2" [] d = 3 -> "3"
      [] d = 4 -> "4" [] d = 5 -> "5" [] d = 6 -> "6" [] d = 7 -> "7"
      [] d = 8 -> "8" [] d = 9 -> "9"

RECURSIVE format(_)
format(n) ==
    IF n < 10 THEN Digit(n) ELSE format(n \div 10) \o Digit(n % 10)

(***************************************************************************)
(* StreamMaxlen (types.rs 12-30).                                          *)
(***************************************************************************)
Equals(v) == [variant |-> "Equals", v |-> v]
Aprrox(v) == [variant |-> "Aprrox", v |-> v]

StreamMaxlen == {Equals(v) : v \in Nums \cup {100}}
                    \cup {Aprrox(v) : v \in Nums \cup {100}}

NoMaxlen == [variant |-> "None"]

StreamMaxlen_ch_Swapped(m) == IF m.variant = "Equals" THEN "~" ELSE "="

StreamMaxlen_ch(m) == IF m.variant = "Equals" THEN "=" ELSE "~"

StreamMaxlen_write_redis_args(m) ==
    <<"MAXLEN", StreamMaxlen_ch(m), format(m.v)>>

(***************************************************************************)
(* StreamClaimOptions (types.rs 36-102).                                   *)
(***************************************************************************)
StreamClaimOptions_default ==
    [idle |-> None, time |-> None, retry |-> None,
     force |-> FALSE, justid |-> FALSE]

StreamClaimOptions_idle(self, ms) == [self EXCEPT !.idle = Some(ms)]
StreamClaimOptions_time(self, ms_time) == [self EXCEPT !.time = Some(ms_time)]
StreamClaimOptions_retry(self, count) == [self EXCEPT !.retry = Some(count)]
StreamClaimOptions_with_force(self) == [self EXCEPT !.force = TRUE]
StreamClaimOptions_with_justid(self) == [self EXCEPT !.justid = TRUE]

\* FORCE written before RETRYCOUNT.
StreamClaimOptions_write_redis_args_Reordered(self) ==
    (IF self.idle.some THEN <<"IDLE", format(self.idle.v)>> ELSE <<>>)
    \o (IF self.time.some THEN <<"TIME", format(self.time.v)>> ELSE <<>>)
    \o (IF self.force THEN <<"FORCE">> ELSE <<>>)
    \o (IF self.retry.some THEN <<"RETRYCOUNT", format(self.retry.v)>> ELSE <<>>)
    \o (IF self.justid THEN <<"JUSTID">> ELSE <<>>)

StreamClaimOptions_write_redis_args(self) ==
    (IF self.idle.some THEN <<"IDLE", format(self.idle.v)>> ELSE <<>>)
    \o (IF self.time.some THEN <<"TIME", format(self.time.v)>> ELSE <<>>)
    \o (IF self.retry.some THEN <<"RETRYCOUNT", format(self.retry.v)>> ELSE <<>>)
    \o (IF self.force THEN <<"FORCE">> ELSE <<>>)
    \o (IF self.justid THEN <<"JUSTID">> ELSE <<>>)

(***************************************************************************)
(* StreamReadOptions (types.rs 108-184).  A group or consumer name is kept *)
(* as the tokens ToRedisArgs::to_redis_args gave for it.                   *)
(***************************************************************************)
StreamReadOptions_default ==
    [block |-> None, count |-> None, noack |-> None, group |-> None]

\* The keyword chosen by the noack flag instead of the group.
StreamReadOptions_read_only_ByNoack(self) == ~self.noack.some

StreamReadOptions_read_only(self) == ~self.group.some

StreamReadOptions_noack(self) == [self EXCEPT !.noack = Some(TRUE)]
StreamReadOptions_block(self, ms) == [self EXCEPT !.block = Some(ms)]
StreamReadOptions_count(self, n) == [self EXCEPT !.count = Some(n)]
StreamReadOptions_group(self, group_name, consumer_name) ==
    [self EXCEPT !.group = Some(<<group_name, consumer_name>>)]

\* NOACK written whether or not a group is set.
StreamReadOptions_write_redis_args_NoackAlone(self) ==
    (IF self.block.some THEN <<"BLOCK", format(self.block.v)>> ELSE <<>>)
    \o (IF self.count.some THEN <<"COUNT", format(self.count.v)>> ELSE <<>>)
    \o (IF self.noack.some /\ self.noack.v THEN <<"NOACK">> ELSE <<>>)
    \o (IF self.group.some
        THEN <<"GROUP">> \o self.group.v[1] \o self.group.v[2]
        ELSE <<>>)

StreamReadOptions_write_redis_args(self) ==
    (IF self.block.some THEN <<"BLOCK", format(self.block.v)>> ELSE <<>>)
    \o (IF self.count.some THEN <<"COUNT", format(self.count.v)>> ELSE <<>>)
    \o (IF self.group.some
        THEN (IF self.noack.some /\ self.noack.v THEN <<"NOACK">> ELSE <<>>)
             \o <<"GROUP">> \o self.group.v[1] \o self.group.v[2]
        ELSE <<>>)

(***************************************************************************)
(* StreamCommands::xread_options (commands.rs 548-565).                    *)
(***************************************************************************)
xread_options(keys, ids, options) ==
    [name |-> IF StreamReadOptions_read_only(options)
              THEN "XREAD" ELSE "XREADGROUP",
     args |-> StreamReadOptions_write_redis_args(options)
              \o <<"STREAMS">> \o keys \o ids]

(***************************************************************************)
(* StreamCommands::xread (commands.rs 506-513).                            *)
(***************************************************************************)
xread(keys, ids) ==
    [name |-> "XREAD", args |-> <<"STREAMS">> \o keys \o ids]

(***************************************************************************)
(* StreamCommands::xclaim and xclaim_options (commands.rs 109-183).        *)
(***************************************************************************)
\* The ids written before the minimum idle time.
xclaim_IdsFirst(key, group, consumer, min_idle_time, ids) ==
    [name |-> "XCLAIM",
     args |-> <<key, group, consumer>> \o ids \o <<format(min_idle_time)>>]

xclaim(key, group, consumer, min_idle_time, ids) ==
    [name |-> "XCLAIM",
     args |-> <<key, group, consumer, format(min_idle_time)>> \o ids]

\* The option tokens written before the ids.
xclaim_options_OptionsFirst(key, group, consumer, min_idle_time, ids, options) ==
    [name |-> "XCLAIM",
     args |-> <<key, group, consumer, format(min_idle_time)>>
              \o StreamClaimOptions_write_redis_args(options) \o ids]

xclaim_options(key, group, consumer, min_idle_time, ids, options) ==
    [name |-> "XCLAIM",
     args |-> <<key, group, consumer, format(min_idle_time)>> \o ids
              \o StreamClaimOptions_write_redis_args(options)]

(***************************************************************************)
(* The field/value arguments of an add: a slice of (field, value) pairs    *)
(* writes each pair in slice order; a BTreeMap writes each entry in the    *)
(* order of its keys.                                                      *)
(***************************************************************************)
RECURSIVE items_write_redis_args(_)
items_write_redis_args(items) ==
    IF items = <<>> THEN <<>>
    ELSE <<items[1][1], items[1][2]>> \o items_write_redis_args(Tail(items))

\* The field names of the model, in byte order.
FieldOrder == <<"a", "b">>

RECURSIVE BTreeMap_entries(_, _)
BTreeMap_entries(map, fields) ==
    IF fields = <<>> THEN <<>>
    ELSE (IF fields[1] \in DOMAIN map THEN <<fields[1], map[fields[1]]>>
          ELSE <<>>)
         \o BTreeMap_entries(map, Tail(fields))

BTreeMap_write_redis_args(map) == BTreeMap_entries(map, FieldOrder)

(***************************************************************************)
(* StreamCommands::xadd, xadd_map, xadd_maxlen, xadd_maxlen_map            *)
(* (commands.rs 30-99) and xtrim (commands.rs 617-624).                    *)
(***************************************************************************)
xadd(key, id, items) ==
    [name |-> "XADD", args |-> <<key, id>> \o items_write_redis_args(items)]

xadd_map(key, id, map) ==
    [name |-> "XADD", args |-> <<key, id>> \o BTreeMap_write_redis_args(map)]

\* The MAXLEN tokens written after the id.
xadd_maxlen_MaxlenAfterId(key, m, id, items) ==
    [name |-> "XADD",
     args |-> <<key, id>> \o StreamMaxlen_write_redis_args(m)
              \o items_write_redis_args(items)]

xadd_maxlen(key, m, id, items) ==
    [name |-> "XADD",
     args |-> <<key>> \o StreamMaxlen_write_redis_args(m) \o <<id>>
              \o items_write_redis_args(items)]

xadd_maxlen_map(key, m, id, map) ==
    [name |-> "XADD",
     args |-> <<key>> \o StreamMaxlen_write_redis_args(m) \o <<id>>
              \o BTreeMap_write_redis_args(map)]

xtrim(key, m) ==
    [name |-> "XTRIM", args |-> <<key>> \o StreamMaxlen_write_redis_args(m)]

(***************************************************************************)
(* Inputs of the builder and command runs.                                 *)
(***************************************************************************)
GroupNames == {<<"g1">>, <<"g1", "g2">>}
ConsumerNames == {<<"c1">>}
\* The keys and ids of a read: <<keys, ids>>.
KeyIdLists == {<< <<>>, <<>> >>, << <<"k1">>, <<"0">> >>,
               << <<"k1", "k2">>, <<"0", ">">> >>}

\* The arguments of the commands.
KeyNames == {"k1"}
MinIdleTimes == {10}
IdLists == {<<>>, <<"1-0">>, <<"1-0", "2-0">>}
EntryIdArgs == {"*", "1-0"}
ItemLists == {<<>>, << <<"b", "1">> >>, << <<"b", "1">>, <<"a", "2">> >>}
FieldMaps == {<<>>, "b" :> "1", ("b" :> "1") @@ ("a" :> "2")}

EncTargets == {"claim", "read", "maxlen", "command"}

\* A command run starts with nothing received, a decoder run with nothing
\* built.
InitNoDecode ==
    /\ reply = Value_Nil
    /\ result = NoResult
    /\ claim_reply = NoResult
    /\ counted = None
    /\ rerun = NoResult
    /\ skips_bad_items \in BOOLEAN

InitNoEncode ==
    /\ claim_options = StreamClaimOptions_default
    /\ read_options = StreamReadOptions_default
    /\ maxlen = NoMaxlen
    /\ calls = <<>>
    /\ args = <<>>
    /\ command = NoCommand

Init ==
    /\ InitNoDecode
    /\ claim_options = StreamClaimOptions_default
    /\ read_options = StreamReadOptions_default
    /\ calls = <<>>
    /\ args = <<>>
    /\ command = NoCommand
    /\ target \in EncTargets
    /\ pc = "build"
    /\ maxlen \in IF target = "maxlen" THEN StreamMaxlen ELSE {NoMaxlen}

decUnchanged == <<reply, result, claim_reply, counted, rerun, skips_bad_items>>
encUnchanged == <<claim_options, read_options, maxlen, calls, args, command>>

(***************************************************************************)
(* The results of decoding a wire value.                                   *)
(***************************************************************************)
Ok(x) == [kind |-> "Ok", v |-> x]
Err(e) == [kind |-> "Err", e |-> e]
\* An index out of bounds: the thread panics, nothing is returned.
Panic == [kind |-> "Panic"]

\* redis::ErrorKind::TypeError, raised by from_redis_value on a value of the
\* wrong shape.
TypeError == [kind |-> "TypeError"]
\* std::io::Error turned into a RedisError by the ? operator.
IoError(msg) == [kind |-> "IoError", msg |-> msg]

AllOk(rs) == \A i \in 1..Len(rs) : rs[i].kind = "Ok"

\* The ? operator over a sequence of results: the values, or the first error.
Collect(rs) ==
    IF AllOk(rs) THEN Ok([i \in 1..Len(rs) |-> rs[i].v])
    ELSE rs[CHOOSE i \in 1..Len(rs) :
               /\ rs[i].kind # "Ok"
               /\ \A j \in 1..(i-1) : rs[j].kind = "Ok"]

RECURSIVE OkValues(_)
OkValues(rs) ==
    IF rs = <<>> THEN <<>>
    ELSE (IF Head(rs).kind = "Ok" THEN <<Head(rs).v>> ELSE <<>>)
         \o OkValues(Tail(rs))

\* FromRedisValue::from_redis_values, given each item's own result.
from_redis_values(rs) ==
    IF skips_bad_items THEN Ok(OkValues(rs)) ELSE Collect(rs)

(***************************************************************************)
(* str::parse::<usize>: an optional +, then decimal digits, no overflow.   *)
(***************************************************************************)
Digits == {"0", "1", "2", "3", "4", "5", "6", "7", "8", "9"}

DigitValue(c) ==
    CASE c = "0" -> 0 [] c = "1" -> 1 [] c = "2" -> 2 [] c = "3" -> 3
      [] c = "4" -> 4 [] c = "5" -> 5 [] c = "6" -> 6 [] c = "7" -> 7
      [] c = "8" -> 8 [] c = "9" -> 9

\* usize::MAX of a 64-bit target, 18446744073709551615, digit by digit.
UsizeMaxDigits ==
    <<"1", "8", "4", "4", "6", "7", "4", "4", "0", "7",
      "3", "7", "0", "9", "5", "5", "1", "6", "1", "5">>

RECURSIVE StripZeros(_)
StripZeros(ds) ==
    IF Len(ds) > 1 /\ Head(ds) = "0" THEN StripZeros(Tail(ds)) ELSE ds

\* Whether digit sequence a (no leading zero) is a larger number than b.
Exceeds(a, b) ==
    \/ Len(a) > Len(b)
    \/ /\ Len(a) = Len(b)
       /\ \E i \in 1..Len(a) :
             /\ DigitValue(a[i]) > DigitValue(b[i])
             /\ \A j \in 1..(i-1) : a[j] = b[j]

\* A usize value is held as its decimal digits without leading zeros: the
\* 64 bits of a usize are wider than the integers TLC computes with.
RECURSIVE usize(_)
usize(n) ==
    IF n < 10 THEN <<Digit(n)>> ELSE Append(usize(n \div 10), Digit(n % 10))

\* a - b on digit sequences of one length, a >= b, right to left with the
\* borrow handed leftwards.
RECURSIVE sub_digits(_, _, _)
sub_digits(a, b, borrow) ==
    IF a = <<>> THEN <<>>
    ELSE LET n == Len(a)
             d == DigitValue(a[n]) - DigitValue(b[n]) - borrow
         IN Append(sub_digits(SubSeq(a, 1, n - 1), SubSeq(b, 1, n - 1),
                              IF d < 0 THEN 1 ELSE 0),
                   Digit(IF d < 0 THEN d + 10 ELSE d))

\* ds with zeros in front up to n digits.
RECURSIVE pad_zeros(_, _)
pad_zeros(ds, n) == IF Len(ds) >= n THEN ds ELSE pad_zeros(<<"0">> \o ds, n)

\* val as usize: a negative i64 wraps to 2^64 + val, which is
\* usize::MAX - (-val - 1).
i64_as_usize(val) ==
    IF val >= 0 THEN usize(val)
    ELSE StripZeros(sub_digits(UsizeMaxDigits,
                               pad_zeros(usize(-val - 1), Len(UsizeMaxDigits)),
                               0))

\* A leading minus sign accepted like a leading plus sign.
parse_usize_AnySign(text) ==
    IF text = <<>> THEN None
    ELSE LET ds == IF Head(text) \in {"+", "-"} THEN Tail(text) ELSE text IN
         IF ds = <<>> \/ \E i \in 1..Len(ds) : ds[i] \notin Digits THEN None
         ELSE IF Exceeds(StripZeros(ds), UsizeMaxDigits) THEN None
         ELSE Some(StripZeros(ds))

parse_usize(text) ==
    IF text = <<>> THEN None
    ELSE LET ds == IF Head(text) = "+" THEN Tail(text) ELSE text IN
         IF ds = <<>> \/ \E i \in 1..Len(ds) : ds[i] \notin Digits THEN None
         ELSE IF Exceeds(StripZeros(ds), UsizeMaxDigits) THEN None
         ELSE Some(StripZeros(ds))

(***************************************************************************)
(* The redis crate's from_redis_value, for the target types the decoders   *)
(* name.                                                                   *)
(***************************************************************************)
from_String(v) == IF v.t = "Data" THEN Ok(v.bytes) ELSE Err(TypeError)

from_usize(v) ==
    CASE v.t = "Int" -> Ok(i64_as_usize(v.n))
      [] v.t = "Data" -> (LET p == parse_usize(v.bytes) IN
                          IF p.some THEN Ok(p.v) ELSE Err(TypeError))
      [] OTHER -> Err(TypeError)

from_Option_String(v) ==
    IF v.t = "Nil" THEN Ok(None)
    ELSE LET r == from_String(v) IN
         IF r.kind = "Ok" THEN Ok(Some(r.v)) ELSE r

from_Vec_String(v) ==
    CASE v.t = "Bulk" ->
            from_redis_values([i \in 1..Len(v.items) |-> from_String(v.items[i])])
      [] v.t = "Nil" -> Ok(<<>>)
      [] OTHER -> Err(TypeError)

from_Vec_Vec_String(v) ==
    CASE v.t = "Bulk" ->
            from_redis_values([i \in 1..Len(v.items) |-> from_Vec_String(v.items[i])])
      [] v.t = "Nil" -> Ok(<<>>)
      [] OTHER -> Err(TypeError)

(***************************************************************************)
(* FromRedisValue for StreamPendingReply (types.rs 442-484) and            *)
(* StreamPendingReply::count (types.rs 235-242).                           *)
(***************************************************************************)
Empty == [variant |-> "Empty"]
StreamPendingData(d) == [variant |-> "Data", data |-> d]

StreamInfoConsumer_default ==
    [name |-> <<>>, pending |-> usize(0), idle |-> usize(0)]

\* let parts: (usize, Option<String>, Option<String>, Vec<Vec<String>>)
pending_parts(v) ==
    IF v.t = "Bulk" /\ Len(v.items) = 4
    THEN Collect(<<from_usize(v.items[1]), from_Option_String(v.items[2]),
                   from_Option_String(v.items[3]), from_Vec_Vec_String(v.items[4])>>)
    ELSE Err(TypeError)

\* A missing start id taken as the empty string.
pending_start_id_Defaulted(parts) ==
    IF parts[2].some THEN Ok(parts[2].v) ELSE Ok(<<>>)

pending_start_id(parts) ==
    IF parts[2].some THEN Ok(parts[2].v)
    ELSE Err(IoError("IllegalState: Non-zero pending expects start id"))

pending_end_id(parts) ==
    IF parts[3].some THEN Ok(parts[3].v)
    ELSE Err(IoError("IllegalState: Non-zero pending expects end id"))

\* The pending count taken from the name's place.
pending_consumer_info_WrongIndex(consumer) ==
    LET p == parse_usize(consumer[1]) IN
    [StreamInfoConsumer_default EXCEPT
        !.name = consumer[1],
        !.pending = IF p.some THEN p.v ELSE usize(0)]

\* The body of the loop over parts.3, for a row of at least two strings.
pending_consumer_info(consumer) ==
    LET p == parse_usize(consumer[2]) IN
    [StreamInfoConsumer_default EXCEPT
        !.name = consumer[1],
        !.pending = IF p.some THEN p.v ELSE usize(0)]

\* consumer[0] or consumer[1] is out of bounds in some row.
pending_consumers(rows) ==
    IF \E i \in 1..Len(rows) : Len(rows[i]) < 2 THEN Panic
    ELSE Ok([i \in 1..Len(rows) |-> pending_consumer_info(rows[i])])

\* A zero count not told apart from the others.
pending_is_empty_Never(count) == FALSE

pending_is_empty(count) == count = usize(0)

StreamPendingReply_from_redis_value(v) ==
    LET parts == pending_parts(v) IN
    IF parts.kind # "Ok" THEN parts
    ELSE IF pending_is_empty(parts.v[1]) THEN Ok(Empty)
    ELSE LET start == pending_start_id(parts.v)
             end == pending_end_id(parts.v)
             consumers == pending_consumers(parts.v[4])
         IN IF start.kind # "Ok" THEN start
            ELSE IF end.kind # "Ok" THEN end
            ELSE IF consumers.kind # "Ok" THEN consumers
            ELSE Ok(StreamPendingData([count |-> parts.v[1],
                                       start_id |-> start.v,
                                       end_id |-> end.v,
                                       consumers |-> consumers.v]))

StreamPendingReply_count(self) ==
    IF self.variant = "Empty" THEN usize(0) ELSE self.data.count

(***************************************************************************)
(* FromRedisValue for StreamPendingCountReply (types.rs 486-500).          *)
(***************************************************************************)
\* (String, String, usize, usize) from four consecutive items.
from_tuple4(items) ==
    Collect(<<from_String(items[1]), from_String(items[2]),
              from_usize(items[3]), from_usize(items[4])>>)

\* The tuple's from_redis_values: the items are cut into tuples of four, and
\* a number of items that is no multiple of four is an error.
tuple4_from_redis_values(items) ==
    IF Len(items) % 4 # 0 THEN Err(TypeError)
    ELSE Collect([k \in 1..(Len(items) \div 4) |->
                     from_tuple4(SubSeq(items, 4 * k - 3, 4 * k))])

from_Vec_tuple4(v) ==
    CASE v.t = "Bulk" -> tuple4_from_redis_values(v.items)
      [] v.t = "Nil" -> Ok(<<>>)
      [] OTHER -> Err(TypeError)

\* let parts: Vec<Vec<(String, String, usize, usize)>>
from_Vec_Vec_tuple4(v) ==
    CASE v.t = "Bulk" ->
            from_redis_values([i \in 1..Len(v.items) |-> from_Vec_tuple4(v.items[i])])
      [] v.t = "Nil" -> Ok(<<>>)
      [] OTHER -> Err(TypeError)

\* The body of the loop over parts, for a row of at least one tuple.
StreamPendingId_from_row(row) ==
    [id |-> row[1][1], consumer |-> row[1][2],
     last_delivered_ms |-> row[1][3], times_delivered |-> row[1][4]]

StreamPendingCountReply_from_redis_value(v) ==
    LET parts == from_Vec_Vec_tuple4(v) IN
    IF parts.kind # "Ok" THEN parts
    ELSE IF \E i \in 1..Len(parts.v) : parts.v[i] = <<>> THEN Panic
    ELSE Ok([ids |-> [i \in 1..Len(parts.v) |->
                         StreamPendingId_from_row(parts.v[i])]])

(***************************************************************************)
(* Inputs of the pending-reply runs.                                       *)
(***************************************************************************)
MaxConsumers == 2
MaxRows == 2

\* All sequences over S of length at most n.
SeqsUpTo(S, n) == UNION {[1..k -> S] : k \in 0..n}

Id_1_0 == <<"1", "-", "0">>
Id_2_0 == <<"2", "-", "0">>
Id_3_0 == <<"3", "-", "0">>
Id_9_0 == <<"9", "-", "0">>
Name_c1 == <<"c", "1">>
Name_c2 == <<"c", "2">>
\* usize::MAX + 1
Text_Overflow ==
    <<"1", "8", "4", "4", "6", "7", "4", "4", "0", "7",
      "3", "7", "0", "9", "5", "5", "1", "6", "1", "6">>

PendingCountValues == {Value_Int(0), Value_Int(3), Value_Int(5)}
PendingStartValues == {Value_Nil, Value_Data(Id_1_0)}
PendingEndValues == {Value_Nil, Value_Data(Id_3_0), Value_Data(Id_9_0)}

ConsumerRows ==
    {Value_Bulk(<<Value_Data(Name_c1), Value_Data(<<"2">>)>>),
     Value_Bulk(<<Value_Data(Name_c2), Value_Data(<<"1">>)>>),
     Value_Bulk(<<Value_Data(Name_c2), Value_Data(<<"0", "1", "0">>)>>),
     Value_Bulk(<<Value_Data(Name_c1), Value_Data(<<"x">>)>>),
     Value_Bulk(<<Value_Data(Name_c2), Value_Data(<<"+", "2">>)>>),
     Value_Bulk(<<Value_Data(Name_c1), Value_Data(Text_Overflow)>>),
     Value_Bulk(<<Value_Data(Name_c2), Value_Data(<<"-", "1">>)>>),
     Value_Bulk(<<Value_Data(Name_c1), Value_Data(<<>>)>>),
     Value_Bulk(<<Value_Data(Name_c1)>>),
     Value_Bulk(<<>>)}

PendingReplies ==
    {Value_Bulk(<<c, s, e, Value_Bulk(rows)>>) :
        c \in PendingCountValues, s \in PendingStartValues,
        e \in PendingEndValues, rows \in SeqsUpTo(ConsumerRows, MaxConsumers)}
    \cup {Value_Nil,
          Value_Bulk(<<Value_Int(3), Value_Data(Id_1_0)>>),
          Value_Bulk(<<Value_Int(0), Value_Nil, Value_Nil, Value_Int(7)>>),
          Value_Bulk(<<Value_Data(<<"x">>), Value_Nil, Value_Nil,
                       Value_Bulk(<<>>)>>)}

PendingCountRows ==
    {Value_Bulk(<<Value_Data(Id_1_0), Value_Data(Name_c1),
                  Value_Int(7), Value_Int(1)>>),
     Value_Bulk(<<Value_Data(Id_2_0), Value_Data(Name_c2),
                  Value_Data(<<"9">>), Value_Int(2)>>),
     Value_Bulk(<<Value_Data(Id_1_0), Value_Data(Name_c1), Value_Int(7)>>),
     Value_Bulk(<<Value_Data(Id_1_0), Value_Data(Name_c1),
                  Value_Data(<<"x">>), Value_Int(1)>>),
     Value_Bulk(<<Value_Data(Id_1_0), Value_Data(Name_c1),
                  Value_Int(7), Value_Int(1),
                  Value_Data(Id_2_0), Value_Data(Name_c2),
                  Value_Int(9), Value_Int(2)>>),
     Value_Bulk(<<>>),
     Value_Nil}

PendingCountReplies ==
    {Value_Bulk(rows) : rows \in SeqsUpTo(PendingCountRows, MaxRows)}
    \cup {Value_Nil, Value_Int(0)}

InitPending ==
    /\ InitNoEncode
    /\ pc = "ready"
    /\ result = NoResult
    /\ claim_reply = NoResult
    /\ counted = None
    /\ rerun = NoResult
    /\ skips_bad_items \in BOOLEAN
    /\ \/ target = "pending" /\ reply \in PendingReplies
       \/ target = "pcount" /\ reply \in PendingCountReplies

DecodePending ==
    /\ target = "pending" /\ pc = "ready"
    /\ result' = StreamPendingReply_from_redis_value(reply)
    /\ pc' = "done"
    /\ UNCHANGED <<target, reply, claim_reply, counted, rerun,
                   skips_bad_items, encUnchanged>>

CountPending ==
    /\ target = "pending" /\ pc = "done" /\ result.kind = "Ok"
    /\ counted' = Some(StreamPendingReply_count(result.v))
    /\ pc' = "counted"
    /\ UNCHANGED <<target, reply, result, claim_reply, rerun,
                   skips_bad_items, encUnchanged>>

DecodePendingCount ==
    /\ target = "pcount" /\ pc = "ready"
    /\ result' = StreamPendingCountReply_from_redis_value(reply)
    /\ pc' = "done"
    /\ UNCHANGED <<target, reply, claim_reply, counted, rerun,
                   skips_bad_items, encUnchanged>>

NextPending == DecodePending \/ CountPending \/ DecodePendingCount

SpecPending == InitPending /\ [][NextPending]_vars

(***************************************************************************)
(* The redis crate's from_redis_value for the nested mappings of the       *)
(* entry replies.  A HashMap is a function on its keys; of two pairs with  *)
(* the same key the later one stays.                                       *)
(***************************************************************************)
\* HashMap<K, V> from the results of converting each pair's key and value.
hashmap_from_pairs(krs, vrs) ==
    LET n == Len(krs)
        inOrder == [i \in 1..(2 * n) |->
                       IF i % 2 = 1 THEN krs[(i + 1) \div 2] ELSE vrs[i \div 2]]
    IN IF ~AllOk(inOrder) THEN Collect(inOrder)
       ELSE Ok([k \in {krs[i].v : i \in 1..n} |->
                   vrs[CHOOSE i \in 1..n :
                          /\ krs[i].v = k
                          /\ \A j \in (i+1)..n : krs[j].v # k].v])

\* HashMap<String, Value>
from_HashMap_String_Value(v) ==
    IF v.t = "Bulk"
    THEN LET n == Len(v.items) \div 2 IN
         hashmap_from_pairs([i \in 1..n |-> from_String(v.items[2 * i - 1])],
                            [i \in 1..n |-> Ok(v.items[2 * i])])
    ELSE Err(TypeError)

\* HashMap<String, HashMap<String, Value>>
from_IdRow(v) ==
    IF v.t = "Bulk"
    THEN LET n == Len(v.items) \div 2 IN
         hashmap_from_pairs(
             [i \in 1..n |-> from_String(v.items[2 * i - 1])],
             [i \in 1..n |-> from_HashMap_String_Value(v.items[2 * i])])
    ELSE Err(TypeError)

\* Vec<HashMap<String, HashMap<String, Value>>>
from_Vec_IdRow(v) ==
    CASE v.t = "Bulk" ->
            from_redis_values([i \in 1..Len(v.items) |-> from_IdRow(v.items[i])])
      [] v.t = "Nil" -> Ok(<<>>)
      [] OTHER -> Err(TypeError)

\* HashMap<String, Vec<HashMap<String, HashMap<String, Value>>>>
from_KeyRow(v) ==
    IF v.t = "Bulk"
    THEN LET n == Len(v.items) \div 2 IN
         hashmap_from_pairs(
             [i \in 1..n |-> from_String(v.items[2 * i - 1])],
             [i \in 1..n |-> from_Vec_IdRow(v.items[2 * i])])
    ELSE Err(TypeError)

\* Vec<HashMap<String, Vec<HashMap<String, HashMap<String, Value>>>>>
from_Vec_KeyRow(v) ==
    CASE v.t = "Bulk" ->
            from_redis_values([i \in 1..Len(v.items) |-> from_KeyRow(v.items[i])])
      [] v.t = "Nil" -> Ok(<<>>)
      [] OTHER -> Err(TypeError)

(***************************************************************************)
(* FromRedisValue for StreamReadReply, StreamRangeReply, StreamClaimReply  *)
(* (types.rs 386-440).  A HashMap is iterated in an order the program does *)
(* not fix, so a decoder has a set of possible results.                    *)
(***************************************************************************)
StreamId_default == [id |-> <<>>, map |-> <<>>]

\* All sequences that take their i-th element from sets[i].
RECURSIVE SeqChoices(_)
SeqChoices(sets) ==
    IF sets = <<>> THEN {<<>>}
    ELSE {<<h>> \o t : h \in Head(sets), t \in SeqChoices(Tail(sets))}

RECURSIVE Flatten(_)
Flatten(seqs) ==
    IF seqs = <<>> THEN <<>> ELSE Head(seqs) \o Flatten(Tail(seqs))

\* The orders in which the keys S of a HashMap can be iterated.
Orders(S) ==
    {p \in [1..Cardinality(S) -> S] :
        \A i, j \in 1..Cardinality(S) : i # j => p[i] # p[j]}

\* The id kept and the field map left at its default.
StreamId_from_id_row_NoMap(id_row) ==
    IF DOMAIN id_row = {} THEN {StreamId_default}
    ELSE {[id |-> id, map |-> <<>>] : id \in DOMAIN id_row}

\* let mut i = StreamId::default(); for (id, map) in id_row.iter() { .. }:
\* the pair iterated last stays.
StreamId_from_id_row(id_row) ==
    IF DOMAIN id_row = {} THEN {StreamId_default}
    ELSE {[id |-> id, map |-> id_row[id]] : id \in DOMAIN id_row}

\* The rows of an empty mapping not pushed.
StreamIds_from_rows_SkipsEmpty(rows) ==
    LET kept == SelectSeq(rows, LAMBDA r : DOMAIN r # {}) IN
    SeqChoices([i \in 1..Len(kept) |-> StreamId_from_id_row(kept[i])])

\* One StreamId pushed per row, in row order.
StreamIds_from_rows(rows) ==
    SeqChoices([i \in 1..Len(rows) |-> StreamId_from_id_row(rows[i])])

\* for (key, entry) in row.iter() { .. reply.keys.push(k) }
StreamKeys_from_row(row) ==
    UNION {SeqChoices([i \in 1..Len(p) |->
                          {[key |-> p[i], ids |-> ids] :
                              ids \in StreamIds_from_rows(row[p[i]])}]) :
              p \in Orders(DOMAIN row)}

StreamReadReply_from_redis_value(v) ==
    LET rows == from_Vec_KeyRow(v) IN
    IF rows.kind # "Ok" THEN {rows}
    ELSE {Ok([keys |-> Flatten(ks)]) :
             ks \in SeqChoices([i \in 1..Len(rows.v) |->
                                   StreamKeys_from_row(rows.v[i])])}

StreamRangeReply_from_redis_value(v) ==
    LET rows == from_Vec_IdRow(v) IN
    IF rows.kind # "Ok" THEN {rows}
    ELSE {Ok([ids |-> ids]) : ids \in StreamIds_from_rows(rows.v)}

\* The last row not pushed.
StreamClaimReply_from_redis_value_DropsLast(v) ==
    LET rows == from_Vec_IdRow(v) IN
    IF rows.kind # "Ok" THEN {rows}
    ELSE {Ok([ids |-> SubSeq(ids, 1, Len(ids) - 1)]) :
             ids \in StreamIds_from_rows(rows.v)}

StreamClaimReply_from_redis_value(v) ==
    LET rows == from_Vec_IdRow(v) IN
    IF rows.kind # "Ok" THEN {rows}
    ELSE {Ok([ids |-> ids]) : ids \in StreamIds_from_rows(rows.v)}

(***************************************************************************)
(* Inputs of the entry-reply runs.                                         *)
(***************************************************************************)
MaxEntries == 2

Name_s1 == <<"s", "1">>
Name_s2 == <<"s", "2">>

Fields_a == Value_Bulk(<<Value_Data(<<"a">>), Value_Data(<<"1">>)>>)
Fields_b == Value_Bulk(<<Value_Data(<<"b">>), Value_Data(<<"2">>)>>)
\* Two fields, the first of them given twice.
Fields_aba ==
    Value_Bulk(<<Value_Data(<<"a">>), Value_Data(<<"1">>),
                 Value_Data(<<"b">>), Value_Int(2),
                 Value_Data(<<"a">>), Value_Data(<<"3">>)>>)

IdRow_1 == Value_Bulk(<<Value_Data(Id_1_0), Fields_a>>)
IdRow_2 == Value_Bulk(<<Value_Data(Id_2_0), Fields_b>>)
IdRow_3 == Value_Bulk(<<Value_Data(Id_3_0), Fields_aba>>)
IdRow_empty == Value_Bulk(<<>>)
IdRow_two == Value_Bulk(<<Value_Data(Id_1_0), Fields_a,
                          Value_Data(Id_2_0), Fields_b>>)

\* The rows of a stream inside a read reply.
ReadIdRows == {IdRow_1, IdRow_2, IdRow_empty, IdRow_two}
\* The rows of a range or claim reply; the last is no mapping at all.
EntryRows == {IdRow_1, IdRow_2, IdRow_3, IdRow_empty, IdRow_two, Value_Int(1)}

KeyRow(name, rows) == Value_Bulk(<<Value_Data(name), Value_Bulk(rows)>>)

ReadReplies ==
    LET E == SeqsUpTo(ReadIdRows, MaxEntries) IN
    {Value_Bulk(<<>>), Value_Nil}
    \cup {Value_Bulk(<<KeyRow(n, e)>>) : n \in {Name_s1, Name_s2}, e \in E}
    \cup {Value_Bulk(<<KeyRow(n[1], e1), KeyRow(n[2], e2)>>) :
             n \in {<<Name_s1, Name_s2>>, <<Name_s2, Name_s1>>},
             e1 \in E, e2 \in E}
    \cup {Value_Bulk(<<Value_Bulk(<<>>)>>),
          Value_Bulk(<<Value_Bulk(<<Value_Data(Name_s1), Value_Bulk(<<IdRow_1>>),
                                    Value_Data(Name_s2), Value_Bulk(<<IdRow_2>>)>>)>>)}

EntryReplies ==
    {Value_Bulk(rows) : rows \in SeqsUpTo(EntryRows, MaxEntries)}
    \cup {Value_Nil}

InitEntries ==
    /\ InitNoEncode
    /\ pc = "ready"
    /\ result = NoResult
    /\ claim_reply = NoResult
    /\ counted = None
    /\ rerun = NoResult
    /\ skips_bad_items \in BOOLEAN
    /\ \/ target = "read_reply" /\ reply \in ReadReplies
       \/ target = "entry_reply" /\ reply \in EntryReplies

DecodeRead ==
    /\ target = "read_reply" /\ pc = "ready"
    /\ result' \in StreamReadReply_from_redis_value(reply)
    /\ pc' = "done"
    /\ UNCHANGED <<target, reply, claim_reply, counted, rerun,
                   skips_bad_items, encUnchanged>>

\* The same reply is handed to the range and to the claim decoder.
DecodeRange ==
    /\ target = "entry_reply" /\ result = NoResult
    /\ result' \in StreamRangeReply_from_redis_value(reply)
    /\ pc' = IF claim_reply # NoResult THEN "done" ELSE pc
    /\ UNCHANGED <<target, reply, claim_reply, counted, rerun,
                   skips_bad_items, encUnchanged>>

DecodeClaim ==
    /\ target = "entry_reply" /\ claim_reply = NoResult
    /\ claim_reply' \in StreamClaimReply_from_redis_value(reply)
    /\ pc' = IF result # NoResult THEN "done" ELSE pc
    /\ UNCHANGED <<target, reply, result, counted, rerun, skips_bad_items,
                   encUnchanged>>

\* The read decoder called a second time on the same reply.
DecodeReadAgain ==
    /\ target = "read_reply" /\ pc = "done" /\ rerun = NoResult
    /\ rerun' \in StreamReadReply_from_redis_value(reply)
    /\ UNCHANGED <<target, pc, reply, result, claim_reply, counted,
                   skips_bad_items, encUnchanged>>

\* The range decoder called a second time on the same reply, before or
\* after the claim decoder.
DecodeRangeAgain ==
    /\ target = "entry_reply" /\ result # NoResult /\ rerun = NoResult
    /\ rerun' \in StreamRangeReply_from_redis_value(reply)
    /\ UNCHANGED <<target, pc, reply, result, claim_reply, counted,
                   skips_bad_items, encUnchanged>>

NextEntries ==
    \/ DecodeRead \/ DecodeRange \/ DecodeClaim
    \/ DecodeReadAgain \/ DecodeRangeAgain

SpecEntries == InitEntries /\ [][NextEntries]_vars

(***************************************************************************)
(* The keys the info decoders look up.                                     *)
(***************************************************************************)
Key_last_generated_id ==
    <<"l", "a", "s", "t", "-", "g", "e", "n", "e", "r", "a", "t", "e", "d", "-", "i", "d">>
Key_radix_tree_nodes ==
    <<"r", "a", "d", "i", "x", "-", "t", "r", "e", "e", "-", "n", "o", "d", "e", "s">>
Key_groups ==
    <<"g", "r", "o", "u", "p", "s">>
Key_length ==
    <<"l", "e", "n", "g", "t", "h">>
Key_first_entry ==
    <<"f", "i", "r", "s", "t", "-", "e", "n", "t", "r", "y">>
Key_last_entry ==
    <<"l", "a", "s", "t", "-", "e", "n", "t", "r", "y">>
Key_name ==
    <<"n", "a", "m", "e">>
Key_pending ==
    <<"p", "e", "n", "d", "i", "n", "g">>
Key_idle ==
    <<"i", "d", "l", "e">>
Key_consumers ==
    <<"c", "o", "n", "s", "u", "m", "e", "r", "s">>
Key_last_delivered_id ==
    <<"l", "a", "s", "t", "-", "d", "e", "l", "i", "v", "e", "r", "e", "d", "-", "i", "d">>
\* A key no decoder knows.
Key_unknown ==
    <<"x", "-", "n", "e", "w">>

(***************************************************************************)
(* StreamId::from_bulk_value (types.rs 349-364).                           *)
(***************************************************************************)
\* Anything but a sequence of at least two elements is a type error.
StreamId_from_bulk_value_Strict(v) ==
    IF v.t # "Bulk" \/ Len(v.items) < 2 THEN Err(TypeError)
    ELSE LET id == from_String(v.items[1])
             map == from_HashMap_String_Value(v.items[2])
         IN IF id.kind # "Ok" THEN id
            ELSE IF map.kind # "Ok" THEN map
            ELSE Ok([id |-> id.v, map |-> map.v])

StreamId_from_bulk_value(v) ==
    IF v.t # "Bulk" THEN Ok(StreamId_default)
    ELSE LET id == IF Len(v.items) >= 1 THEN from_String(v.items[1])
                   ELSE Ok(StreamId_default.id)
             map == IF Len(v.items) >= 2
                    THEN from_HashMap_String_Value(v.items[2])
                    ELSE Ok(StreamId_default.map)
         IN IF id.kind # "Ok" THEN id
            ELSE IF map.kind # "Ok" THEN map
            ELSE Ok([id |-> id.v, map |-> map.v])

(***************************************************************************)
(* FromRedisValue for StreamInfoStreamReply (types.rs 502-526),            *)
(* StreamInfoConsumersReply (528-548) and StreamInfoGroupsReply (550-572). *)
(***************************************************************************)
\* map.get(key)
get(map, key) == IF key \in DOMAIN map THEN Some(map[key]) ELSE None

\* if let Some(v) = .. { field = from_redis_value(v)?; }, for a String, a
\* usize and a StreamId field: the value to assign, or the error returned.
field_String(found, default) ==
    IF found.some THEN from_String(found.v) ELSE Ok(default)

\* A value that fails to convert leaves the field at its default.
field_usize_Lenient(found, default) ==
    IF found.some /\ from_usize(found.v).kind = "Ok"
    THEN from_usize(found.v) ELSE Ok(default)

field_usize(found, default) ==
    IF found.some THEN from_usize(found.v) ELSE Ok(default)

field_StreamId(found, default) ==
    IF found.some THEN StreamId_from_bulk_value(found.v) ELSE Ok(default)

StreamInfoStreamReply_default ==
    [last_generated_id |-> <<>>, radix_tree_keys |-> usize(0),
     groups |-> usize(0), length |-> usize(0),
     first_entry |-> StreamId_default,
     last_entry |-> StreamId_default]

StreamInfoStreamReply_from_redis_value(v) ==
    LET map == from_HashMap_String_Value(v) IN
    IF map.kind # "Ok" THEN map
    ELSE LET d == StreamInfoStreamReply_default
             fields == Collect(
                <<field_String(get(map.v, Key_last_generated_id),
                               d.last_generated_id),
                  field_usize(get(map.v, Key_radix_tree_nodes),
                              d.radix_tree_keys),
                  field_usize(get(map.v, Key_groups), d.groups),
                  field_usize(get(map.v, Key_length), d.length),
                  field_StreamId(get(map.v, Key_first_entry), d.first_entry),
                  field_StreamId(get(map.v, Key_last_entry), d.last_entry)>>)
         IN IF fields.kind # "Ok" THEN fields
            ELSE Ok([last_generated_id |-> fields.v[1],
                     radix_tree_keys |-> fields.v[2],
                     groups |-> fields.v[3],
                     length |-> fields.v[4],
                     first_entry |-> fields.v[5],
                     last_entry |-> fields.v[6]])

\* Vec<HashMap<String, Value>>
from_Vec_HashMap_String_Value(v) ==
    CASE v.t = "Bulk" ->
            from_redis_values([i \in 1..Len(v.items) |->
                                  from_HashMap_String_Value(v.items[i])])
      [] v.t = "Nil" -> Ok(<<>>)
      [] OTHER -> Err(TypeError)

\* The body of the loop over consumers.
StreamInfoConsumer_from_map(map) ==
    LET d == StreamInfoConsumer_default
        fields == Collect(<<field_String(get(map, Key_name), d.name),
                            field_usize(get(map, Key_pending), d.pending),
                            field_usize(get(map, Key_idle), d.idle)>>)
    IN IF fields.kind # "Ok" THEN fields
       ELSE Ok([name |-> fields.v[1], pending |-> fields.v[2],
                idle |-> fields.v[3]])

\* The consumers pushed in reverse order.
StreamInfoConsumersReply_from_redis_value_Reversed(v) ==
    LET consumers == from_Vec_HashMap_String_Value(v) IN
    IF consumers.kind # "Ok" THEN consumers
    ELSE LET n == Len(consumers.v)
             cs == Collect([i \in 1..n |->
                       StreamInfoConsumer_from_map(consumers.v[n + 1 - i])])
         IN IF cs.kind # "Ok" THEN cs ELSE Ok([consumers |-> cs.v])

StreamInfoConsumersReply_from_redis_value(v) ==
    LET consumers == from_Vec_HashMap_String_Value(v) IN
    IF consumers.kind # "Ok" THEN consumers
    ELSE LET cs == Collect([i \in 1..Len(consumers.v) |->
                       StreamInfoConsumer_from_map(consumers.v[i])])
         IN IF cs.kind # "Ok" THEN cs ELSE Ok([consumers |-> cs.v])

StreamInfoGroup_default ==
    [name |-> <<>>, consumers |-> usize(0), pending |-> usize(0),
     last_delivered_id |-> <<>>]

\* The body of the loop over groups.
StreamInfoGroup_from_map(map) ==
    LET d == StreamInfoGroup_default
        fields == Collect(
            <<field_String(get(map, Key_name), d.name),
              field_usize(get(map, Key_pending), d.pending),
              field_usize(get(map, Key_consumers), d.consumers),
              field_String(get(map, Key_last_delivered_id),
                           d.last_delivered_id)>>)
    IN IF fields.kind # "Ok" THEN fields
       ELSE Ok([name |-> fields.v[1], pending |-> fields.v[2],
                consumers |-> fields.v[3],
                last_delivered_id |-> fields.v[4]])

StreamInfoGroupsReply_from_redis_value(v) ==
    LET groups == from_Vec_HashMap_String_Value(v) IN
    IF groups.kind # "Ok" THEN groups
    ELSE LET gs == Collect([i \in 1..Len(groups.v) |->
                       StreamInfoGroup_from_map(groups.v[i])])
         IN IF gs.kind # "Ok" THEN gs ELSE Ok([groups |-> gs.v])


(***************************************************************************)
(* Inputs of the info-reply runs.                                          *)
(***************************************************************************)
MaxInfos == 2

Name_g1 == <<"g", "1">>

\* A key and its value inside a mapping.
Pair(key, value) == <<Value_Data(key), value>>

\* The first-entry values: a pair of id and fields, then shapes that are
\* no such pair.
FirstEntryValues ==
    {IdRow_1, Value_Int(5), Value_Bulk(<<Value_Data(Id_1_0)>>),
     Value_Bulk(<<>>), Value_Bulk(<<Value_Int(1), Fields_a>>)}

\* For each key, the ways it occurs in a stream info mapping: not at all,
\* or with one of its values.
InfoStreamPairs ==
    <<{<<>>, Pair(Key_last_generated_id, Value_Data(Id_2_0)),
       Pair(Key_last_generated_id, Value_Int(5))},
      {<<>>, Pair(Key_radix_tree_nodes, Value_Int(2))},
      {<<>>, Pair(Key_unknown, Value_Int(1))},
      {<<>>, Pair(Key_groups, Value_Int(3)),
       Pair(Key_groups, Value_Data(<<"x">>))},
      {<<>>, Pair(Key_length, Value_Int(1)),
       Pair(Key_length, Value_Data(<<"7">>))},
      {<<>>} \cup {Pair(Key_first_entry, e) : e \in FirstEntryValues},
      {<<>>, Pair(Key_last_entry, IdRow_2)}>>

InfoStreamReplies ==
    {Value_Bulk(Flatten(c)) : c \in SeqChoices(InfoStreamPairs)}
    \cup {Value_Nil, Value_Int(1)}

\* The elements of a consumer list; the last is no mapping at all.
InfoConsumerMaps ==
    {Value_Bulk(Pair(Key_name, Value_Data(Name_c1))
                \o Pair(Key_pending, Value_Int(2))
                \o Pair(Key_idle, Value_Int(10))),
     Value_Bulk(Pair(Key_name, Value_Data(Name_c2))),
     Value_Bulk(<<>>),
     Value_Bulk(Pair(Key_unknown, Value_Int(1))
                \o Pair(Key_name, Value_Data(Name_c1))
                \o Pair(Key_idle, Value_Data(<<"7">>))),
     Value_Bulk(Pair(Key_name, Value_Data(Name_c1))
                \o Pair(Key_pending, Value_Data(<<"x">>))),
     Value_Bulk(Pair(Key_name, Value_Int(1))),
     Value_Int(1)}

InfoConsumersReplies ==
    {Value_Bulk(ms) : ms \in SeqsUpTo(InfoConsumerMaps, MaxInfos)}
    \cup {Value_Nil, Value_Int(1)}

\* The elements of a group list; the last is no mapping at all.
InfoGroupMaps ==
    {Value_Bulk(Pair(Key_name, Value_Data(Name_g1))
                \o Pair(Key_consumers, Value_Int(2))
                \o Pair(Key_pending, Value_Int(3))
                \o Pair(Key_last_delivered_id, Value_Data(Id_1_0))),
     Value_Bulk(Pair(Key_pending, Value_Int(1))),
     Value_Bulk(<<>>),
     Value_Bulk(Pair(Key_name, Value_Data(Name_g1))
                \o Pair(Key_unknown, Value_Data(<<"y">>))
                \o Pair(Key_consumers, Value_Data(<<"2">>))),
     Value_Bulk(Pair(Key_name, Value_Data(Name_g1))
                \o Pair(Key_consumers, Value_Data(<<"x">>))),
     Value_Bulk(Pair(Key_last_delivered_id, Value_Int(5))),
     Value_Int(1)}

InfoGroupsReplies ==
    {Value_Bulk(ms) : ms \in SeqsUpTo(InfoGroupMaps, MaxInfos)}
    \cup {Value_Nil, Value_Int(1)}

InitInfo ==
    /\ InitNoEncode
    /\ pc = "ready"
    /\ result = NoResult
    /\ claim_reply = NoResult
    /\ counted = None
    /\ rerun = NoResult
    /\ skips_bad_items \in BOOLEAN
    /\ \/ target = "info_stream" /\ reply \in InfoStreamReplies
       \/ target = "info_consumers" /\ reply \in InfoConsumersReplies
       \/ target = "info_groups" /\ reply \in InfoGroupsReplies

DecodeInfoStream ==
    /\ target = "info_stream" /\ pc = "ready"
    /\ result' = StreamInfoStreamReply_from_redis_value(reply)
    /\ pc' = "done"
    /\ UNCHANGED <<target, reply, claim_reply, counted, rerun,
                   skips_bad_items, encUnchanged>>

DecodeInfoConsumers ==
    /\ target = "info_consumers" /\ pc = "ready"
    /\ result' = StreamInfoConsumersReply_from_redis_value(reply)
    /\ pc' = "done"
    /\ UNCHANGED <<target, reply, claim_reply, counted, rerun,
                   skips_bad_items, encUnchanged>>

DecodeInfoGroups ==
    /\ target = "info_groups" /\ pc = "ready"
    /\ result' = StreamInfoGroupsReply_from_redis_value(reply)
    /\ pc' = "done"
    /\ UNCHANGED <<target, reply, claim_reply, counted, rerun,
                   skips_bad_items, encUnchanged>>

NextInfo == DecodeInfoStream \/ DecodeInfoConsumers \/ DecodeInfoGroups

SpecInfo == InitInfo /\ [][NextInfo]_vars

(***************************************************************************)
(* The replies the command functions receive in the runs, and the          *)
(* conversion to the return type the caller names.                         *)
(***************************************************************************)
\* RV, the return type the caller names, taken as redis::Value, whose
\* conversion returns the value received.
from_Value(v) == Ok(v)

GenericQueryReplies == {Value_Int(1), Value_Data(Id_1_0)}
ReadQueryReplies ==
    {Value_Int(1), Value_Bulk(<<KeyRow(Name_s1, <<IdRow_1, IdRow_2>>)>>)}
EntryQueryReplies == {Value_Int(1), Value_Bulk(<<IdRow_1, IdRow_2>>)}
PendingQueryReplies ==
    {Value_Nil,
     Value_Bulk(<<Value_Int(0), Value_Nil, Value_Nil, Value_Nil>>),
     Value_Bulk(<<Value_Int(3), Value_Data(Id_1_0), Value_Data(Id_3_0),
                  Value_Bulk(<<Value_Bulk(<<Value_Data(Name_c1),
                                            Value_Data(<<"2">>)>>)>>)>>)}
PendingCountQueryReplies ==
    {Value_Int(1),
     Value_Bulk(<<Value_Bulk(<<Value_Data(Id_1_0), Value_Data(Name_c1),
                               Value_Int(7), Value_Int(1)>>),
                  Value_Bulk(<<Value_Data(Id_1_0), Value_Data(Name_c1),
                               Value_Int(7)>>)>>)}
InfoStreamQueryReplies ==
    {Value_Int(1),
     Value_Bulk(Pair(Key_length, Value_Int(1))
                \o Pair(Key_first_entry, IdRow_1))}
InfoConsumersQueryReplies ==
    {Value_Bulk(<<Value_Int(1)>>),
     Value_Bulk(<<Value_Bulk(Pair(Key_name, Value_Data(Name_c1))
                             \o Pair(Key_pending, Value_Int(2))
                             \o Pair(Key_idle, Value_Int(-1)))>>)}
InfoGroupsQueryReplies ==
    {Value_Bulk(<<Value_Int(1)>>),
     Value_Bulk(<<Value_Bulk(Pair(Key_name, Value_Data(Name_g1))
                             \o Pair(Key_consumers, Value_Int(2)))>>)}

\* The arguments of the commands that take no options.
GroupArgs == {"g1"}
ConsumerArgs == {"c1"}
GroupIdArgs == {"$", "0"}
RangeArgs == {"-", "+", "1-0"}

(***************************************************************************)
(* Builder calls on StreamClaimOptions.                                    *)
(***************************************************************************)
CanCall(t) == target = t /\ pc = "build" /\ Len(calls) < MaxCalls

ClaimIdle ==
    /\ CanCall("claim")
    /\ \E ms \in Nums :
          /\ claim_options' = StreamClaimOptions_idle(claim_options, ms)
          /\ calls' = Append(calls, [f |-> "idle", v |-> ms])
    /\ UNCHANGED <<target, pc, read_options, maxlen, args, command, decUnchanged>>

ClaimTime ==
    /\ CanCall("claim")
    /\ \E ms \in Nums :
          /\ claim_options' = StreamClaimOptions_time(claim_options, ms)
          /\ calls' = Append(calls, [f |-> "time", v |-> ms])
    /\ UNCHANGED <<target, pc, read_options, maxlen, args, command, decUnchanged>>

ClaimRetry ==
    /\ CanCall("claim")
    /\ \E n \in Nums :
          /\ claim_options' = StreamClaimOptions_retry(claim_options, n)
          /\ calls' = Append(calls, [f |-> "retry", v |-> n])
    /\ UNCHANGED <<target, pc, read_options, maxlen, args, command, decUnchanged>>

ClaimWithForce ==
    /\ CanCall("claim")
    /\ claim_options' = StreamClaimOptions_with_force(claim_options)
    /\ calls' = Append(calls, [f |-> "with_force"])
    /\ UNCHANGED <<target, pc, read_options, maxlen, args, command, decUnchanged>>

ClaimWithJustid ==
    /\ CanCall("claim")
    /\ claim_options' = StreamClaimOptions_with_justid(claim_options)
    /\ calls' = Append(calls, [f |-> "with_justid"])
    /\ UNCHANGED <<target, pc, read_options, maxlen, args, command, decUnchanged>>

\* ToRedisArgs::write_redis_args on the options built so far.
ClaimEncode ==
    /\ target = "claim" /\ pc = "build"
    /\ args' = StreamClaimOptions_write_redis_args(claim_options)
    /\ pc' = "done"
    /\ UNCHANGED <<target, claim_options, read_options, maxlen, calls,
                   command, decUnchanged>>

(***************************************************************************)
(* Builder calls on StreamReadOptions.                                     *)
(***************************************************************************)
ReadBlock ==
    /\ CanCall("read")
    /\ \E ms \in Nums :
          /\ read_options' = StreamReadOptions_block(read_options, ms)
          /\ calls' = Append(calls, [f |-> "block", v |-> ms])
    /\ UNCHANGED <<target, pc, claim_options, maxlen, args, command, decUnchanged>>

ReadCount ==
    /\ CanCall("read")
    /\ \E n \in Nums :
          /\ read_options' = StreamReadOptions_count(read_options, n)
          /\ calls' = Append(calls, [f |-> "count", v |-> n])
    /\ UNCHANGED <<target, pc, claim_options, maxlen, args, command, decUnchanged>>

ReadNoack ==
    /\ CanCall("read")
    /\ read_options' = StreamReadOptions_noack(read_options)
    /\ calls' = Append(calls, [f |-> "noack"])
    /\ UNCHANGED <<target, pc, claim_options, maxlen, args, command, decUnchanged>>

ReadGroup ==
    /\ CanCall("read")
    /\ \E gn \in GroupNames, cn \in ConsumerNames :
          /\ read_options' = StreamReadOptions_group(read_options, gn, cn)
          /\ calls' = Append(calls, [f |-> "group", gn |-> gn, cn |-> cn])
    /\ UNCHANGED <<target, pc, claim_options, maxlen, args, command, decUnchanged>>

ReadEncode ==
    /\ target = "read" /\ pc = "build"
    /\ args' = StreamReadOptions_write_redis_args(read_options)
    /\ pc' = "done"
    /\ UNCHANGED <<target, claim_options, read_options, maxlen, calls,
                   command, decUnchanged>>

XreadOptions ==
    /\ target = "read" /\ pc = "build"
    /\ \E ki \in KeyIdLists :
          /\ command' = xread_options(ki[1], ki[2], read_options)
          /\ calls' = Append(calls, [f |-> "xread_options",
                                     keys |-> ki[1], ids |-> ki[2]])
    /\ pc' = "sent"
    /\ UNCHANGED <<target, claim_options, read_options, maxlen, args,
                   decUnchanged>>

(***************************************************************************)
(* StreamMaxlen.                                                           *)
(***************************************************************************)
MaxlenEncode ==
    /\ target = "maxlen" /\ pc = "build"
    /\ args' = StreamMaxlen_write_redis_args(maxlen)
    /\ pc' = "done"
    /\ UNCHANGED <<target, claim_options, read_options, maxlen, calls,
                   command, decUnchanged>>

(***************************************************************************)
(* The commands issued with the options and the maxlen built so far.       *)
(***************************************************************************)
Xread ==
    /\ target = "read" /\ pc = "build"
    /\ \E ki \in KeyIdLists :
          /\ command' = xread(ki[1], ki[2])
          /\ calls' = Append(calls, [f |-> "xread",
                                     keys |-> ki[1], ids |-> ki[2]])
    /\ pc' = "sent"
    /\ UNCHANGED <<target, claim_options, read_options, maxlen, args,
                   decUnchanged>>

Xclaim ==
    /\ target = "claim" /\ pc = "build"
    /\ \E key \in KeyNames, group \in GroupNames, consumer \in ConsumerNames,
          min_idle_time \in MinIdleTimes, ids \in IdLists :
          /\ Len(group) = 1
          /\ command' = xclaim(key, group[1], consumer[1], min_idle_time, ids)
          /\ calls' = Append(calls, [f |-> "xclaim", key |-> key,
                                     group |-> group[1],
                                     consumer |-> consumer[1],
                                     min_idle_time |-> min_idle_time,
                                     ids |-> ids])
    /\ pc' = "sent"
    /\ UNCHANGED <<target, claim_options, read_options, maxlen, args,
                   decUnchanged>>

XclaimOptions ==
    /\ target = "claim" /\ pc = "build"
    /\ \E key \in KeyNames, group \in GroupNames, consumer \in ConsumerNames,
          min_idle_time \in MinIdleTimes, ids \in IdLists :
          /\ Len(group) = 1
          /\ command' = xclaim_options(key, group[1], consumer[1],
                                       min_idle_time, ids, claim_options)
          /\ calls' = Append(calls, [f |-> "xclaim_options", key |-> key,
                                     group |-> group[1],
                                     consumer |-> consumer[1],
                                     min_idle_time |-> min_idle_time,
                                     ids |-> ids])
    /\ pc' = "sent"
    /\ UNCHANGED <<target, claim_options, read_options, maxlen, args,
                   decUnchanged>>

Xadd ==
    /\ target = "maxlen" /\ pc = "build"
    /\ \E key \in KeyNames, id \in EntryIdArgs, items \in ItemLists :
          /\ command' = xadd(key, id, items)
          /\ calls' = Append(calls, [f |-> "xadd", key |-> key, id |-> id,
                                     items |-> items])
    /\ pc' = "sent"
    /\ UNCHANGED <<target, claim_options, read_options, maxlen, args,
                   decUnchanged>>

XaddMap ==
    /\ target = "maxlen" /\ pc = "build"
    /\ \E key \in KeyNames, id \in EntryIdArgs, map \in FieldMaps :
          /\ command' = xadd_map(key, id, map)
          /\ calls' = Append(calls, [f |-> "xadd_map", key |-> key, id |-> id,
                                     map |-> map])
    /\ pc' = "sent"
    /\ UNCHANGED <<target, claim_options, read_options, maxlen, args,
                   decUnchanged>>

XaddMaxlen ==
    /\ target = "maxlen" /\ pc = "build"
    /\ \E key \in KeyNames, id \in EntryIdArgs, items \in ItemLists :
          /\ command' = xadd_maxlen(key, maxlen, id, items)
          /\ calls' = Append(calls, [f |-> "xadd_maxlen", key |-> key,
                                     id |-> id, items |-> items])
    /\ pc' = "sent"
    /\ UNCHANGED <<target, claim_options, read_options, maxlen, args,
                   decUnchanged>>

XaddMaxlenMap ==
    /\ target = "maxlen" /\ pc = "build"
    /\ \E key \in KeyNames, id \in EntryIdArgs, map \in FieldMaps :
          /\ command' = xadd_maxlen_map(key, maxlen, id, map)
          /\ calls' = Append(calls, [f |-> "xadd_maxlen_map", key |-> key,
                                     id |-> id, map |-> map])
    /\ pc' = "sent"
    /\ UNCHANGED <<target, claim_options, read_options, maxlen, args,
                   decUnchanged>>

Xtrim ==
    /\ target = "maxlen" /\ pc = "build"
    /\ \E key \in KeyNames :
          /\ command' = xtrim(key, maxlen)
          /\ calls' = Append(calls, [f |-> "xtrim", key |-> key])
    /\ pc' = "sent"
    /\ UNCHANGED <<target, claim_options, read_options, maxlen, args,
                   decUnchanged>>

(***************************************************************************)
(* The commands that take no options (commands.rs 17-24, 190-497,          *)
(* 573-611).  Each sends its command, waits for the reply and converts it  *)
(* to its return type.                                                     *)
(***************************************************************************)
Xack ==
    /\ target = "command" /\ pc = "build"
    /\ \E key \in KeyNames, group \in GroupArgs, ids \in IdLists :
          /\ command' = [name |-> "XACK",
                         args |-> <<key, group>> \o ids]
          /\ calls' = Append(calls, [f |-> "xack", key |-> key, group |-> group,
                                   ids |-> ids])
    /\ pc' = "sent"
    /\ UNCHANGED <<target, claim_options, read_options, maxlen, args,
                   decUnchanged>>

Xdel ==
    /\ target = "command" /\ pc = "build"
    /\ \E key \in KeyNames, ids \in IdLists :
          /\ command' = [name |-> "XDEL",
                         args |-> <<key>> \o ids]
          /\ calls' = Append(calls, [f |-> "xdel", key |-> key, ids |-> ids])
    /\ pc' = "sent"
    /\ UNCHANGED <<target, claim_options, read_options, maxlen, args,
                   decUnchanged>>

XgroupCreate ==
    /\ target = "command" /\ pc = "build"
    /\ \E key \in KeyNames, group \in GroupArgs, id \in GroupIdArgs :
          /\ command' = [name |-> "XGROUP",
                         args |-> <<"CREATE", key, group, id>>]
          /\ calls' = Append(calls, [f |-> "xgroup_create", key |-> key, group
                                   |-> group, id |-> id])
    /\ pc' = "sent"
    /\ UNCHANGED <<target, claim_options, read_options, maxlen, args,
                   decUnchanged>>

XgroupCreateMkstream ==
    /\ target = "command" /\ pc = "build"
    /\ \E key \in KeyNames, group \in GroupArgs, id \in GroupIdArgs :
          /\ command' = [name |-> "XGROUP",
                         args |-> <<"CREATE", key, group, id, "MKSTREAM">>]
          /\ calls' = Append(calls, [f |-> "xgroup_create_mkstream", key |->
                                   key, group |-> group, id |-> id])
    /\ pc' = "sent"
    /\ UNCHANGED <<target, claim_options, read_options, maxlen, args,
                   decUnchanged>>

XgroupSetid ==
    /\ target = "command" /\ pc = "build"
    /\ \E key \in KeyNames, group \in GroupArgs, id \in GroupIdArgs :
          /\ command' = [name |-> "XGROUP",
                         args |-> <<"SETID", key, group, id>>]
          /\ calls' = Append(calls, [f |-> "xgroup_setid", key |-> key, group
                                   |-> group, id |-> id])
    /\ pc' = "sent"
    /\ UNCHANGED <<target, claim_options, read_options, maxlen, args,
                   decUnchanged>>

XgroupDestroy ==
    /\ target = "command" /\ pc = "build"
    /\ \E key \in KeyNames, group \in GroupArgs :
          /\ command' = [name |-> "XGROUP",
                         args |-> <<"DESTROY", key, group>>]
          /\ calls' = Append(calls, [f |-> "xgroup_destroy", key |-> key, group
                                   |-> group])
    /\ pc' = "sent"
    /\ UNCHANGED <<target, claim_options, read_options, maxlen, args,
                   decUnchanged>>

XgroupDelconsumer ==
    /\ target = "command" /\ pc = "build"
    /\ \E key \in KeyNames, group \in GroupArgs, consumer \in ConsumerArgs :
          /\ command' = [name |-> "XGROUP",
                         args |-> <<"DELCONSUMER", key, group, consumer>>]
          /\ calls' = Append(calls, [f |-> "xgroup_delconsumer", key |-> key,
                                   group |-> group, consumer |-> consumer])
    /\ pc' = "sent"
    /\ UNCHANGED <<target, claim_options, read_options, maxlen, args,
                   decUnchanged>>

XinfoConsumers ==
    /\ target = "command" /\ pc = "build"
    /\ \E key \in KeyNames, group \in GroupArgs :
          /\ command' = [name |-> "XINFO",
                         args |-> <<"CONSUMERS", key, group>>]
          /\ calls' = Append(calls, [f |-> "xinfo_consumers", key |-> key, group
                                   |-> group])
    /\ pc' = "sent"
    /\ UNCHANGED <<target, claim_options, read_options, maxlen, args,
                   decUnchanged>>

XinfoGroups ==
    /\ target = "command" /\ pc = "build"
    /\ \E key \in KeyNames :
          /\ command' = [name |-> "XINFO",
                         args |-> <<"GROUPS", key>>]
          /\ calls' = Append(calls, [f |-> "xinfo_groups", key |-> key])
    /\ pc' = "sent"
    /\ UNCHANGED <<target, claim_options, read_options, maxlen, args,
                   decUnchanged>>

XinfoStream ==
    /\ target = "command" /\ pc = "build"
    /\ \E key \in KeyNames :
          /\ command' = [name |-> "XINFO",
                         args |-> <<"STREAM", key>>]
          /\ calls' = Append(calls, [f |-> "xinfo_stream", key |-> key])
    /\ pc' = "sent"
    /\ UNCHANGED <<target, claim_options, read_options, maxlen, args,
                   decUnchanged>>

Xlen ==
    /\ target = "command" /\ pc = "build"
    /\ \E key \in KeyNames :
          /\ command' = [name |-> "XLEN",
                         args |-> <<key>>]
          /\ calls' = Append(calls, [f |-> "xlen", key |-> key])
    /\ pc' = "sent"
    /\ UNCHANGED <<target, claim_options, read_options, maxlen, args,
                   decUnchanged>>

Xpending ==
    /\ target = "command" /\ pc = "build"
    /\ \E key \in KeyNames, group \in GroupArgs :
          /\ command' = [name |-> "XPENDING",
                         args |-> <<key, group>>]
          /\ calls' = Append(calls, [f |-> "xpending", key |-> key, group |->
                                   group])
    /\ pc' = "sent"
    /\ UNCHANGED <<target, claim_options, read_options, maxlen, args,
                   decUnchanged>>

XpendingCount ==
    /\ target = "command" /\ pc = "build"
    /\ \E key \in KeyNames, group \in GroupArgs, start \in RangeArgs, end \in
          RangeArgs, count \in MinIdleTimes :
          /\ command' = [name |-> "XPENDING",
                         args |-> <<key, group, start, end, format(count)>>]
          /\ calls' = Append(calls, [f |-> "xpending_count", key |-> key, group
                                   |-> group, start |-> start, end |-> end,
                                   count |-> count])
    /\ pc' = "sent"
    /\ UNCHANGED <<target, claim_options, read_options, maxlen, args,
                   decUnchanged>>

XpendingConsumerCount ==
    /\ target = "command" /\ pc = "build"
    /\ \E key \in KeyNames, group \in GroupArgs, start \in RangeArgs, end \in
          RangeArgs, count \in MinIdleTimes, consumer \in ConsumerArgs :
          /\ command' = [name |-> "XPENDING",
                         args |-> <<key, group, start, end, format(count),
                                  consumer>>]
          /\ calls' = Append(calls, [f |-> "xpending_consumer_count", key |->
                                   key, group |-> group, start |-> start, end
                                   |-> end, count |-> count, consumer |->
                                   consumer])
    /\ pc' = "sent"
    /\ UNCHANGED <<target, claim_options, read_options, maxlen, args,
                   decUnchanged>>

Xrange ==
    /\ target = "command" /\ pc = "build"
    /\ \E key \in KeyNames, start \in RangeArgs, end \in RangeArgs :
          /\ command' = [name |-> "XRANGE",
                         args |-> <<key, start, end>>]
          /\ calls' = Append(calls, [f |-> "xrange", key |-> key, start |->
                                   start, end |-> end])
    /\ pc' = "sent"
    /\ UNCHANGED <<target, claim_options, read_options, maxlen, args,
                   decUnchanged>>

XrangeAll ==
    /\ target = "command" /\ pc = "build"
    /\ \E key \in KeyNames :
          /\ command' = [name |-> "XRANGE",
                         args |-> <<key, "-", "+">>]
          /\ calls' = Append(calls, [f |-> "xrange_all", key |-> key])
    /\ pc' = "sent"
    /\ UNCHANGED <<target, claim_options, read_options, maxlen, args,
                   decUnchanged>>

XrangeCount ==
    /\ target = "command" /\ pc = "build"
    /\ \E key \in KeyNames, start \in RangeArgs, end \in RangeArgs, count \in
          MinIdleTimes :
          /\ command' = [name |-> "XRANGE",
                         args |-> <<key, start, end, "COUNT", format(count)>>]
          /\ calls' = Append(calls, [f |-> "xrange_count", key |-> key, start
                                   |-> start, end |-> end, count |-> count])
    /\ pc' = "sent"
    /\ UNCHANGED <<target, claim_options, read_options, maxlen, args,
                   decUnchanged>>

Xrevrange ==
    /\ target = "command" /\ pc = "build"
    /\ \E key \in KeyNames, end \in RangeArgs, start \in RangeArgs :
          /\ command' = [name |-> "XREVRANGE",
                         args |-> <<key, end, start>>]
          /\ calls' = Append(calls, [f |-> "xrevrange", key |-> key, end |->
                                   end, start |-> start])
    /\ pc' = "sent"
    /\ UNCHANGED <<target, claim_options, read_options, maxlen, args,
                   decUnchanged>>

XrevrangeAll ==
    /\ target = "command" /\ pc = "build"
    /\ \E key \in KeyNames :
          /\ command' = [name |-> "XREVRANGE",
                         args |-> <<key, "+", "-">>]
          /\ calls' = Append(calls, [f |-> "xrevrange_all", key |-> key])
    /\ pc' = "sent"
    /\ UNCHANGED <<target, claim_options, read_options, maxlen, args,
                   decUnchanged>>

XrevrangeCount ==
    /\ target = "command" /\ pc = "build"
    /\ \E key \in KeyNames, end \in RangeArgs, start \in RangeArgs, count \in
          MinIdleTimes :
          /\ command' = [name |-> "XREVRANGE",
                         args |-> <<key, end, start, "COUNT", format(count)>>]
          /\ calls' = Append(calls, [f |-> "xrevrange_count", key |-> key, end
                                   |-> end, start |-> start, count |-> count])
    /\ pc' = "sent"
    /\ UNCHANGED <<target, claim_options, read_options, maxlen, args,
                   decUnchanged>>

(***************************************************************************)
(* query(): every command function ends in it.  The command is written,    *)
(* the call blocks until the connection hands back the server's reply or   *)
(* fails, and a reply is converted to the function's return type.          *)
(***************************************************************************)
\* The function whose command is on the wire.
Waiting == calls[Len(calls)].f

\* The return type each command function names for its reply.
ReturnType(f) ==
    CASE f \in {"xread", "xread_options"} -> "StreamReadReply"
      [] f \in {"xrange", "xrange_count", "xrevrange", "xrevrange_all",
                "xrevrange_count"} -> "StreamRangeReply"
      [] f = "xclaim" -> "StreamClaimReply"
      [] f = "xpending" -> "StreamPendingReply"
      [] f \in {"xpending_count", "xpending_consumer_count"} ->
            "StreamPendingCountReply"
      [] f = "xinfo_stream" -> "StreamInfoStreamReply"
      [] f = "xinfo_consumers" -> "StreamInfoConsumersReply"
      [] f = "xinfo_groups" -> "StreamInfoGroupsReply"
      [] OTHER -> "RV"

\* The replies a command of each return type receives in the runs.
QueryReplies(type) ==
    CASE type = "StreamReadReply" -> ReadQueryReplies
      [] type \in {"StreamRangeReply", "StreamClaimReply"} -> EntryQueryReplies
      [] type = "StreamPendingReply" -> PendingQueryReplies
      [] type = "StreamPendingCountReply" -> PendingCountQueryReplies
      [] type = "StreamInfoStreamReply" -> InfoStreamQueryReplies
      [] type = "StreamInfoConsumersReply" -> InfoConsumersQueryReplies
      [] type = "StreamInfoGroupsReply" -> InfoGroupsQueryReplies
      [] OTHER -> GenericQueryReplies

\* from_redis_value::<type>(v): the results the conversion can give.
from_redis_value(type, v) ==
    CASE type = "StreamReadReply" -> StreamReadReply_from_redis_value(v)
      [] type = "StreamRangeReply" -> StreamRangeReply_from_redis_value(v)
      [] type = "StreamClaimReply" -> StreamClaimReply_from_redis_value(v)
      [] type = "StreamPendingReply" ->
            {StreamPendingReply_from_redis_value(v)}
      [] type = "StreamPendingCountReply" ->
            {StreamPendingCountReply_from_redis_value(v)}
      [] type = "StreamInfoStreamReply" ->
            {StreamInfoStreamReply_from_redis_value(v)}
      [] type = "StreamInfoConsumersReply" ->
            {StreamInfoConsumersReply_from_redis_value(v)}
      [] type = "StreamInfoGroupsReply" ->
            {StreamInfoGroupsReply_from_redis_value(v)}
      [] OTHER -> {from_Value(v)}

\* The io error a connection fails with in the runs.
ConnectionErrors == {"Broken pipe"}

\* The reply arrives: query() converts it and the function returns.
QueryReturns ==
    /\ pc = "sent"
    /\ \E received \in QueryReplies(ReturnType(Waiting)) :
          /\ reply' = received
          /\ result' \in from_redis_value(ReturnType(Waiting), received)
    /\ pc' = "issued"
    /\ UNCHANGED <<target, claim_options, read_options, maxlen, calls, args,
                   command, claim_reply, counted, rerun, skips_bad_items>>

\* The connection fails while the function waits: query() returns the io
\* error, no reply was received.
QueryFails ==
    /\ pc = "sent"
    /\ \E msg \in ConnectionErrors : result' = Err(IoError(msg))
    /\ pc' = "issued"
    /\ UNCHANGED <<target, claim_options, read_options, maxlen, calls, args,
                   command, reply, claim_reply, counted, rerun,
                   skips_bad_items>>

Next ==
    \/ ClaimIdle \/ ClaimTime \/ ClaimRetry \/ ClaimWithForce
    \/ ClaimWithJustid \/ ClaimEncode
    \/ ReadBlock \/ ReadCount \/ ReadNoack \/ ReadGroup
    \/ ReadEncode \/ XreadOptions
    \/ MaxlenEncode
    \/ Xread \/ Xclaim \/ XclaimOptions
    \/ Xadd \/ XaddMap \/ XaddMaxlen \/ XaddMaxlenMap \/ Xtrim
    \/ Xack \/ Xdel \/ XgroupCreate \/ XgroupCreateMkstream
    \/ XgroupSetid \/ XgroupDestroy \/ XgroupDelconsumer \/ XinfoConsumers
    \/ XinfoGroups \/ XinfoStream \/ Xlen \/ Xpending
    \/ XpendingCount \/ XpendingConsumerCount \/ Xrange \/ XrangeAll
    \/ XrangeCount \/ Xrevrange \/ XrevrangeAll \/ XrevrangeCount
    \/ QueryReturns \/ QueryFails

Spec == Init /\ [][Next]_vars

(***************************************************************************)
(* What the builder calls made so far ask for, read off the call history.  *)
(***************************************************************************)
WasCalled(f) == \E i \in 1..Len(calls) : calls[i].f = f

LastCall(f) ==
    calls[CHOOSE i \in 1..Len(calls) :
             /\ calls[i].f = f
             /\ \A j \in (i+1)..Len(calls) : calls[j].f # f]

Count(seq, x) == Cardinality({i \in 1..Len(seq) : seq[i] = x})

Keyword(kw, f) ==
    IF WasCalled(f) THEN <<kw, ToString(LastCall(f).v)>> ELSE <<>>

Flag(kw, f) == IF WasCalled(f) THEN <<kw>> ELSE <<>>

ExpectedClaimTokens ==
    Keyword("IDLE", "idle") \o Keyword("TIME", "time")
    \o Keyword("RETRYCOUNT", "retry")
    \o Flag("FORCE", "with_force") \o Flag("JUSTID", "with_justid")

ExpectedReadTokens ==
    Keyword("BLOCK", "block") \o Keyword("COUNT", "count")
    \o (IF WasCalled("group")
        THEN Flag("NOACK", "noack") \o <<"GROUP">>
             \o LastCall("group").gn \o LastCall("group").cn
        ELSE <<>>)

\* C1: after any sequence of StreamClaimOptions builder calls the encoded
\* tokens are IDLE ms, TIME ms, RETRYCOUNT n, FORCE, JUSTID, in that order,
\* each present exactly when its builder was called, each keyword at most
\* once, each value the last one set.
C1_ClaimOptionsTokens ==
    (target = "claim" /\ pc = "done") =>
        /\ args = ExpectedClaimTokens
        /\ \A kw \in {"IDLE", "TIME", "RETRYCOUNT", "FORCE", "JUSTID"} :
              Count(args, kw) <= 1
        /\ (\A i \in 1..Len(calls) :
               calls[i] \in {[f |-> "idle", v |-> 10], [f |-> "retry", v |-> 2],
                             [f |-> "with_force"]})
           /\ WasCalled("idle") /\ WasCalled("retry") /\ WasCalled("with_force")
           => args = <<"IDLE", "10", "RETRYCOUNT", "2", "FORCE">>

\* with_force, retry(10), retry(2), idle(10) were called, in an order that is
\* not the emission order and with a repeat, and then encoded.
C1_Witness ==
    /\ target = "claim" /\ pc = "done"
    /\ calls = <<[f |-> "with_force"], [f |-> "retry", v |-> 10],
                 [f |-> "retry", v |-> 2], [f |-> "idle", v |-> 10]>>
    /\ args = <<"IDLE", "10", "RETRYCOUNT", "2", "FORCE">>

\* C2: after any sequence of StreamReadOptions builder calls the encoded
\* tokens are BLOCK ms, COUNT n, then, only when a group was set, NOACK (when
\* noack was called), GROUP, the group-name tokens and the consumer-name
\* tokens; without a group neither NOACK nor GROUP is emitted.
C2_ReadOptionsTokens ==
    (target = "read" /\ pc = "done" /\ ~WasCalled("xread_options")) =>
        /\ args = ExpectedReadTokens
        /\ ~WasCalled("group") =>
              Count(args, "NOACK") = 0 /\ Count(args, "GROUP") = 0

\* noack, then group twice (the second with a name of two tokens), then
\* block(10), were called and encoded.
C2_Witness ==
    /\ target = "read" /\ pc = "done"
    /\ calls = <<[f |-> "noack"],
                 [f |-> "group", gn |-> <<"g1">>, cn |-> <<"c1">>],
                 [f |-> "group", gn |-> <<"g1", "g2">>, cn |-> <<"c1">>],
                 [f |-> "block", v |-> 10]>>
    /\ args = <<"BLOCK", "10", "NOACK", "GROUP", "g1", "g2", "c1">>

\* The option tokens of an issued command: its arguments without the
\* trailing STREAMS, keys and ids the caller passed.
OptionTokens ==
    SubSeq(command.args, 1,
           Len(command.args) - 1 - Len(LastCall("xread_options").keys)
                                 - Len(LastCall("xread_options").ids))

\* C3: xread_options issues XREAD exactly when no group was set and
\* XREADGROUP exactly when one was; the arguments are the read-option
\* tokens, STREAMS, the keys in caller order, the ids in caller order; GROUP
\* is among the option tokens iff the keyword is XREADGROUP, and NOACK is
\* never among them under XREAD.
C3_XreadOptions ==
    (target = "read" /\ pc \in {"sent", "issued"}
                     /\ WasCalled("xread_options")) =>
        /\ command.name = "XREAD" <=> ~WasCalled("group")
        /\ command.name = "XREADGROUP" <=> WasCalled("group")
        /\ command.args = ExpectedReadTokens \o <<"STREAMS">>
                            \o LastCall("xread_options").keys
                            \o LastCall("xread_options").ids
        /\ Count(OptionTokens, "GROUP") > 0 <=> command.name = "XREADGROUP"
        /\ command.name = "XREAD" => Count(OptionTokens, "NOACK") = 0

\* noack and count(2) were called without a group, and xread_options was
\* issued for two keys and two ids.
C3_Witness ==
    /\ target = "read" /\ pc = "issued"
    /\ calls = <<[f |-> "noack"], [f |-> "count", v |-> 2],
                 [f |-> "xread_options", keys |-> <<"k1", "k2">>,
                  ids |-> <<"0", ">">>]>>
    /\ command = [name |-> "XREAD",
                  args |-> <<"COUNT", "2", "STREAMS", "k1", "k2", "0", ">">>]

\* C4: encoding a StreamMaxlen yields exactly MAXLEN, then = (Equals) or
\* ~ (Aprrox), then the count in decimal.
C4_MaxlenTokens ==
    (target = "maxlen" /\ pc = "done") =>
        /\ Len(args) = 3
        /\ args[1] = "MAXLEN"
        /\ maxlen.variant = "Equals" => args[2] = "="
        /\ maxlen.variant = "Aprrox" => args[2] = "~"
        /\ args[3] = ToString(maxlen.v)
        /\ maxlen = Equals(100) => args = <<"MAXLEN", "=", "100">>
        /\ maxlen = Aprrox(100) => args = <<"MAXLEN", "~", "100">>

\* Aprrox(100) was encoded.
C4_Witness ==
    /\ target = "maxlen" /\ pc = "done"
    /\ maxlen = Aprrox(100)
    /\ args = <<"MAXLEN", "~", "100">>

(***************************************************************************)
(* The shape of a pending summary on the wire: count, optional start id,   *)
(* optional end id, and a sequence of rows of strings.                     *)
(***************************************************************************)
IsOptionalText(v) == v.t \in {"Nil", "Data"}

IsTextRow(v) ==
    v.t = "Bulk" /\ \A i \in 1..Len(v.items) : v.items[i].t = "Data"

IsPendingSummary(v) ==
    /\ v.t = "Bulk" /\ Len(v.items) = 4
    /\ v.items[1].t = "Int"
    /\ IsOptionalText(v.items[2]) /\ IsOptionalText(v.items[3])
    /\ v.items[4].t = "Bulk"
    /\ \A i \in 1..Len(v.items[4].items) : IsTextRow(v.items[4].items[i])

PendingDecoded == target = "pending" /\ pc \in {"done", "counted"}

\* C5: a pending summary whose count is zero decodes to Empty whatever the
\* ids and the per-consumer rows hold, and count() of the result is 0.
C5_ZeroCountIsEmpty ==
    (PendingDecoded /\ IsPendingSummary(reply) /\ reply.items[1].n = 0) =>
        /\ result = Ok(Empty)
        /\ pc = "counted" => counted = Some(usize(0))

\* A summary of count zero with a start id, no end id and a row of a single
\* string was decoded, and count() was taken.
C5_Witness ==
    /\ target = "pending" /\ pc = "counted"
    /\ reply = Value_Bulk(<<Value_Int(0), Value_Data(Id_1_0), Value_Nil,
                            Value_Bulk(<<Value_Bulk(<<Value_Data(Name_c1)>>)>>)>>)
    /\ result = Ok(Empty)
    /\ counted = Some(usize(0))

StartIdMissing == "IllegalState: Non-zero pending expects start id"
EndIdMissing == "IllegalState: Non-zero pending expects end id"

\* C6: a pending summary of nonzero count whose start id or end id is nil
\* fails with the IllegalState error naming the missing id, never with a
\* shape (type) error and never with a value.
C6_MissingIdIsIllegalState ==
    (/\ PendingDecoded /\ IsPendingSummary(reply)
     /\ reply.items[1].n # 0
     /\ (reply.items[2].t = "Nil" \/ reply.items[3].t = "Nil")) =>
        /\ result.kind = "Err"
        /\ result.e.kind = "IoError"
        /\ result.e.msg = IF reply.items[2].t = "Nil" THEN StartIdMissing
                          ELSE EndIdMissing
        /\ result.e # TypeError

\* (5, nil, "9-0", []) was decoded.
C6_Witness ==
    /\ target = "pending" /\ pc = "done"
    /\ reply = Value_Bulk(<<Value_Int(5), Value_Nil, Value_Data(Id_9_0),
                            Value_Bulk(<<>>)>>)
    /\ result = Err(IoError(StartIdMissing))

\* The decimal text of a number, most significant digit first.
IsDecimalText(text) ==
    text # <<>> /\ \A i \in 1..Len(text) : text[i] \in Digits

\* A row [name, decimal-count-text].
IsCountPair(v) ==
    IsTextRow(v) /\ Len(v.items) = 2 /\ IsDecimalText(v.items[2].bytes)

FitsUsize(text) == ~Exceeds(StripZeros(text), UsizeMaxDigits)

PendingPairs == reply.items[4].items

\* The result is Data with the reply's count and ids, and one consumer per
\* pair, in order, whose pending count is the number the count text writes.
PendingDataMatches ==
    /\ result.kind = "Ok" /\ result.v.variant = "Data"
    /\ result.v.data.count = usize(reply.items[1].n)
    /\ result.v.data.start_id = reply.items[2].bytes
    /\ result.v.data.end_id = reply.items[3].bytes
    /\ Len(result.v.data.consumers) = Len(PendingPairs)
    /\ \A i \in 1..Len(PendingPairs) :
          /\ result.v.data.consumers[i].name = PendingPairs[i].items[1].bytes
          /\ result.v.data.consumers[i].pending
                = StripZeros(PendingPairs[i].items[2].bytes)

FullSummaryDecoded ==
    /\ PendingDecoded /\ IsPendingSummary(reply)
    /\ reply.items[1].n # 0
    /\ reply.items[2].t = "Data" /\ reply.items[3].t = "Data"
    /\ \A i \in 1..Len(PendingPairs) : IsCountPair(PendingPairs[i])

\* C7 as stated: with a nonzero count, both ids and pairs [name, decimal
\* count text], the result is Data with one consumer per pair whose pending
\* count is the integer the text writes.
C7_AsStated == FullSummaryDecoded => PendingDataMatches

\* C7 as amended: with a nonzero count, both ids and pairs [name, decimal
\* count text], the result is Data with the reply's count and ids and one
\* consumer per pair, in order, with the pair's name; each pair on its own
\* has the pending count its text writes when that number is no larger
\* than usize::MAX, and pending 0 when it is larger.
C7_PendingData ==
    FullSummaryDecoded =>
        /\ result.kind = "Ok" /\ result.v.variant = "Data"
        /\ result.v.data.count = usize(reply.items[1].n)
        /\ result.v.data.start_id = reply.items[2].bytes
        /\ result.v.data.end_id = reply.items[3].bytes
        /\ Len(result.v.data.consumers) = Len(PendingPairs)
        /\ \A i \in 1..Len(PendingPairs) :
              LET text == PendingPairs[i].items[2].bytes
                  info == result.v.data.consumers[i]
              IN /\ info.name = PendingPairs[i].items[1].bytes
                 /\ FitsUsize(text) => info.pending = StripZeros(text)
                 /\ ~FitsUsize(text) => info.pending = usize(0)

\* (3, "1-0", "3-0", [[c2, "010"], [c1, "18446744073709551616"]]) was
\* decoded: the first pair keeps its number next to the overflowing one.
C7_Witness ==
    /\ target = "pending" /\ pc = "done"
    /\ reply = Value_Bulk(<<Value_Int(3), Value_Data(Id_1_0), Value_Data(Id_3_0),
                 Value_Bulk(<<Value_Bulk(<<Value_Data(Name_c2),
                                           Value_Data(<<"0", "1", "0">>)>>),
                              Value_Bulk(<<Value_Data(Name_c1),
                                           Value_Data(Text_Overflow)>>)>>)>>)
    /\ result = Ok(StreamPendingData(
                     [count |-> usize(3), start_id |-> Id_1_0,
                      end_id |-> Id_3_0,
                      consumers |-> <<[name |-> Name_c2, pending |-> usize(10),
                                       idle |-> usize(0)],
                                      [name |-> Name_c1, pending |-> usize(0),
                                       idle |-> usize(0)]>>]))

(***************************************************************************)
(* The shape of the entry replies on the wire.                             *)
(***************************************************************************)
IsFieldMapping(v) ==
    /\ v.t = "Bulk" /\ Len(v.items) % 2 = 0
    /\ \A i \in 1..(Len(v.items) \div 2) : v.items[2 * i - 1].t = "Data"

\* A single-entry mapping id -> field map.
IsSingleIdRow(v) ==
    /\ v.t = "Bulk" /\ Len(v.items) = 2
    /\ v.items[1].t = "Data" /\ IsFieldMapping(v.items[2])

IsIdRowList(v) ==
    v.t = "Bulk" /\ \A i \in 1..Len(v.items) : IsSingleIdRow(v.items[i])

\* A single-entry mapping stream name -> rows.
IsSingleKeyRow(v) ==
    /\ v.t = "Bulk" /\ Len(v.items) = 2
    /\ v.items[1].t = "Data" /\ IsIdRowList(v.items[2])

IsSingleEntryReadReply(v) ==
    v.t = "Bulk" /\ \A i \in 1..Len(v.items) : IsSingleKeyRow(v.items[i])

\* Whether map holds exactly the fields of the wire mapping fields: each
\* name of the wire with the value that follows its last occurrence.
MapHoldsFields(map, fields) ==
    LET n == Len(fields.items) \div 2 IN
    /\ DOMAIN map = {fields.items[2 * i - 1].bytes : i \in 1..n}
    /\ \A i \in 1..n :
          (\A j \in (i+1)..n :
              fields.items[2 * j - 1] # fields.items[2 * i - 1])
          => map[fields.items[2 * i - 1].bytes] = fields.items[2 * i]

\* Whether ids holds one StreamId per wire row, in order, with the row's id
\* and fields.
IdsHoldRows(ids, rows) ==
    /\ Len(ids) = Len(rows)
    /\ \A j \in 1..Len(rows) :
          /\ ids[j].id = rows[j].items[1].bytes
          /\ MapHoldsFields(ids[j].map, rows[j].items[2])

\* C8: a read reply of single-entry mappings decodes to one StreamKey per
\* outer mapping, in order, with the mapping's key and one StreamId per
\* inner mapping, in order, with its id and field map; an empty outer
\* sequence decodes to a reply with no keys.
C8_ReadReply ==
    (target = "read_reply" /\ pc = "done" /\ IsSingleEntryReadReply(reply)) =>
        /\ result.kind = "Ok"
        /\ Len(result.v.keys) = Len(reply.items)
        /\ \A i \in 1..Len(reply.items) :
              /\ result.v.keys[i].key = reply.items[i].items[1].bytes
              /\ IdsHoldRows(result.v.keys[i].ids, reply.items[i].items[2].items)
        /\ reply.items = <<>> => result = Ok([keys |-> <<>>])

\* One stream s1 with the entries 1-0 -> {a: 1} and 2-0 -> {b: 2} was
\* decoded.
C8_Witness ==
    /\ target = "read_reply" /\ pc = "done"
    /\ reply = Value_Bulk(<<KeyRow(Name_s1, <<IdRow_1, IdRow_2>>)>>)
    /\ result.kind = "Ok"
    /\ Len(result.v.keys) = 1
    /\ result.v.keys[1].key = Name_s1
    /\ Len(result.v.keys[1].ids) = 2
    /\ result.v.keys[1].ids[1].id = Id_1_0
    /\ result.v.keys[1].ids[1].map[<<"a">>] = Value_Data(<<"1">>)
    /\ result.v.keys[1].ids[2].id = Id_2_0
    /\ result.v.keys[1].ids[2].map[<<"b">>] = Value_Data(<<"2">>)

\* C9: a range or claim reply of single-entry mappings decodes to one
\* StreamId per mapping, in order, with its id and field map, and the two
\* decoders give the same entries for the same reply.
C9_RangeAndClaimReply ==
    (target = "entry_reply" /\ IsIdRowList(reply)) =>
        /\ result # NoResult =>
              result.kind = "Ok" /\ IdsHoldRows(result.v.ids, reply.items)
        /\ claim_reply # NoResult =>
              /\ claim_reply.kind = "Ok"
              /\ IdsHoldRows(claim_reply.v.ids, reply.items)
        /\ (result # NoResult /\ claim_reply # NoResult) =>
              result.v.ids = claim_reply.v.ids

\* Both decoders were given the rows 3-0 -> {a, b, a again} and 1-0 -> {a}.
C9_Witness ==
    /\ target = "entry_reply" /\ pc = "done"
    /\ reply = Value_Bulk(<<IdRow_3, IdRow_1>>)
    /\ result.kind = "Ok" /\ claim_reply.kind = "Ok"
    /\ Len(result.v.ids) = 2 /\ Len(claim_reply.v.ids) = 2
    /\ result.v.ids[1].id = Id_3_0
    /\ result.v.ids[1].map[<<"a">>] = Value_Data(<<"3">>)
    /\ claim_reply.v.ids[2].id = Id_1_0

(***************************************************************************)
(* The shape of a detailed pending reply on the wire.                      *)
(***************************************************************************)
IsNumber(v) ==
    \/ v.t = "Int" /\ v.n >= 0
    \/ v.t = "Data" /\ IsDecimalText(v.bytes) /\ FitsUsize(v.bytes)

\* A row of exactly four fields: id, consumer, milliseconds, deliveries.
IsPendingRow(v) ==
    /\ v.t = "Bulk" /\ Len(v.items) = 4
    /\ v.items[1].t = "Data" /\ v.items[2].t = "Data"
    /\ IsNumber(v.items[3]) /\ IsNumber(v.items[4])

FieldCount(v) == IF v.t = "Bulk" THEN Len(v.items) ELSE 0

NumberOf(v) ==
    IF v.t = "Int" THEN usize(v.n) ELSE StripZeros(v.bytes)

\* C10: a detailed pending reply decodes to one StreamPendingId per row, in
\* order, with the row's four fields, and a successful decode holds no
\* element built from a row that does not hold exactly four fields: it has
\* no more elements than the reply has rows of exactly four fields.
C10_PendingDetail ==
    (target = "pcount" /\ pc = "done" /\ reply.t = "Bulk") =>
        /\ (\A i \in 1..Len(reply.items) : IsPendingRow(reply.items[i])) =>
              /\ result.kind = "Ok"
              /\ Len(result.v.ids) = Len(reply.items)
              /\ \A i \in 1..Len(reply.items) :
                    /\ result.v.ids[i].id = reply.items[i].items[1].bytes
                    /\ result.v.ids[i].consumer = reply.items[i].items[2].bytes
                    /\ result.v.ids[i].last_delivered_ms
                          = NumberOf(reply.items[i].items[3])
                    /\ result.v.ids[i].times_delivered
                          = NumberOf(reply.items[i].items[4])
        /\ result.kind = "Ok" =>
              Len(result.v.ids)
                 <= Cardinality({i \in 1..Len(reply.items) :
                                    FieldCount(reply.items[i]) = 4})

(***************************************************************************)
(* What the issued commands are expected to hold, read off the call        *)
(* history.                                                                *)
(***************************************************************************)
Issued(f) ==
    pc \in {"sent", "issued"} /\ calls # <<>> /\ calls[Len(calls)].f = f

TheCall == calls[Len(calls)]

ClaimHead ==
    <<TheCall.key, TheCall.group, TheCall.consumer,
      ToString(TheCall.min_idle_time)>>

\* C15: xclaim_options issues XCLAIM with key, group, consumer,
\* min-idle-time, every id in caller order, then the claim-option tokens:
\* the option tokens all come after the last id, contiguously, at the end.
C15_XclaimOptions ==
    (target = "claim" /\ Issued("xclaim_options")) =>
        /\ command.name = "XCLAIM"
        /\ command.args = ClaimHead \o TheCall.ids \o ExpectedClaimTokens
        /\ SubSeq(command.args, 5, 4 + Len(TheCall.ids)) = TheCall.ids
        /\ SubSeq(command.args, 5 + Len(TheCall.ids), Len(command.args))
              = ExpectedClaimTokens

\* with_justid and idle(10) were called and xclaim_options was issued for
\* two ids.
C15_Witness ==
    /\ target = "claim" /\ pc = "issued"
    /\ calls = <<[f |-> "with_justid"], [f |-> "idle", v |-> 10],
                 [f |-> "xclaim_options", key |-> "k1", group |-> "g1",
                  consumer |-> "c1", min_idle_time |-> 10,
                  ids |-> <<"1-0", "2-0">>]>>
    /\ command = [name |-> "XCLAIM",
                  args |-> <<"k1", "g1", "c1", "10", "1-0", "2-0",
                             "IDLE", "10", "JUSTID">>]

ExpectedMaxlenTokens ==
    <<"MAXLEN", IF maxlen.variant = "Equals" THEN "=" ELSE "~",
      ToString(maxlen.v)>>

\* The field/value tokens of a slice of pairs, in slice order.
ExpectedItemTokens(items) ==
    [i \in 1..(2 * Len(items)) |->
        items[(i + 1) \div 2][IF i % 2 = 1 THEN 1 ELSE 2]]

\* Whether tokens holds each field of the map once, followed by its value.
HoldsMapEntries(tokens, map) ==
    /\ Len(tokens) = 2 * Cardinality(DOMAIN map)
    /\ {tokens[2 * i - 1] : i \in 1..(Len(tokens) \div 2)} = DOMAIN map
    /\ \A i \in 1..(Len(tokens) \div 2) :
          tokens[2 * i] = map[tokens[2 * i - 1]]

\* A token sequence without its second, third and fourth tokens.
WithoutMaxlen(tokens) == <<tokens[1]>> \o SubSeq(tokens, 5, Len(tokens))

\* C16: xadd_maxlen and xadd_maxlen_map issue XADD with the key, the three
\* MAXLEN tokens, the id, then the field/value tokens; xtrim issues XTRIM
\* with the key and the three MAXLEN tokens only; xadd and xadd_map issue
\* what the maxlen forms issue without the three MAXLEN tokens.
C16_AddAndTrim ==
    /\ (target = "maxlen" /\ Issued("xadd_maxlen")) =>
          /\ command.name = "XADD"
          /\ command.args = <<TheCall.key>> \o ExpectedMaxlenTokens
                \o <<TheCall.id>> \o ExpectedItemTokens(TheCall.items)
    /\ (target = "maxlen" /\ Issued("xadd_maxlen_map")) =>
          /\ command.name = "XADD"
          /\ SubSeq(command.args, 1, 5)
                = <<TheCall.key>> \o ExpectedMaxlenTokens \o <<TheCall.id>>
          /\ HoldsMapEntries(SubSeq(command.args, 6, Len(command.args)),
                             TheCall.map)
    /\ (target = "maxlen" /\ Issued("xtrim")) =>
          /\ command.name = "XTRIM"
          /\ command.args = <<TheCall.key>> \o ExpectedMaxlenTokens
    /\ (target = "maxlen" /\ Issued("xadd")) =>
          /\ command.name = "XADD"
          /\ command.args = <<TheCall.key, TheCall.id>>
                              \o ExpectedItemTokens(TheCall.items)
          /\ command.args = WithoutMaxlen(
                xadd_maxlen(TheCall.key, maxlen, TheCall.id, TheCall.items).args)
    /\ (target = "maxlen" /\ Issued("xadd_map")) =>
          /\ command.name = "XADD"
          /\ command.args = WithoutMaxlen(
                xadd_maxlen_map(TheCall.key, maxlen, TheCall.id, TheCall.map).args)

\* xadd_maxlen was issued with Aprrox(10), the id * and two pairs.
C16_Witness ==
    /\ target = "maxlen" /\ pc = "issued"
    /\ maxlen = Aprrox(10)
    /\ calls = <<[f |-> "xadd_maxlen", key |-> "k1", id |-> "*",
                  items |-> << <<"b", "1">>, <<"a", "2">> >>]>>
    /\ command = [name |-> "XADD",
                  args |-> <<"k1", "MAXLEN", "~", "10", "*",
                             "b", "1", "a", "2">>]

\* C19: with options never configured, xread_options issues what xread
\* issues for the same keys and ids, and xclaim_options issues what xclaim
\* issues for the same key, group, consumer, min-idle-time and ids.
C19_DefaultOptions ==
    /\ (target = "read" /\ Issued("xread_options") /\ Len(calls) = 1) =>
          /\ command = xread(calls[1].keys, calls[1].ids)
          /\ command.name = "XREAD"
          /\ command.args = <<"STREAMS">> \o calls[1].keys \o calls[1].ids
    /\ (target = "read" /\ Issued("xread")) =>
          command = xread_options(TheCall.keys, TheCall.ids,
                                  StreamReadOptions_default)
    /\ (target = "claim" /\ Issued("xclaim_options") /\ Len(calls) = 1) =>
          /\ command = xclaim(TheCall.key, TheCall.group, TheCall.consumer,
                              TheCall.min_idle_time, TheCall.ids)
          /\ command.args = ClaimHead \o TheCall.ids
    /\ (target = "claim" /\ Issued("xclaim")) =>
          command = xclaim_options(TheCall.key, TheCall.group,
                                   TheCall.consumer, TheCall.min_idle_time,
                                   TheCall.ids, StreamClaimOptions_default)

\* xclaim_options was issued for two ids with options never configured.
C19_Witness ==
    /\ target = "claim" /\ pc = "issued"
    /\ claim_options = StreamClaimOptions_default
    /\ calls = <<[f |-> "xclaim_options", key |-> "k1", group |-> "g1",
                  consumer |-> "c1", min_idle_time |-> 10,
                  ids |-> <<"1-0", "2-0">>]>>
    /\ command = [name |-> "XCLAIM",
                  args |-> <<"k1", "g1", "c1", "10", "1-0", "2-0">>]

\* C12: every decode ends by returning a decoded value or an error and never
\* aborts; in particular a pending summary of nonzero count, with both ids
\* and a per-consumer row of fewer than two elements, and a detailed
\* pending reply with a row of no fields, end in a returned error.
C12_DecodeReturns ==
    (target \in {"pending", "pcount"} /\ pc # "ready") =>
        /\ result.kind \in {"Ok", "Err"}
        /\ (/\ target = "pending" /\ IsPendingSummary(reply)
            /\ reply.items[1].n # 0
            /\ reply.items[2].t = "Data" /\ reply.items[3].t = "Data"
            /\ \E i \in 1..Len(PendingPairs) : Len(PendingPairs[i].items) < 2)
           => result.kind = "Err"
        /\ (/\ target = "pcount" /\ reply.t = "Bulk"
            /\ \E i \in 1..Len(reply.items) :
                  reply.items[i] = Value_Bulk(<<>>))
           => result.kind = "Err"

\* A count text that is a decimal number, with or without a plus sign.
IsNumericText(text) ==
    \/ IsDecimalText(text)
    \/ text # <<>> /\ Head(text) = "+" /\ IsDecimalText(Tail(text))

IsTextPair(v) == IsTextRow(v) /\ Len(v.items) = 2

\* C17: in a pending summary of nonzero count with both ids, a pair whose
\* count token is not a non-negative decimal integer decodes with pending 0
\* and its name kept; the decode succeeds, and the count, the ids and the
\* other consumers are what they are without it.
C17_NonNumericCountIsZero ==
    (/\ PendingDecoded /\ IsPendingSummary(reply)
     /\ reply.items[1].n # 0
     /\ reply.items[2].t = "Data" /\ reply.items[3].t = "Data"
     /\ \A i \in 1..Len(PendingPairs) : IsTextPair(PendingPairs[i])) =>
        /\ result.kind = "Ok" /\ result.v.variant = "Data"
        /\ result.v.data.count = usize(reply.items[1].n)
        /\ result.v.data.start_id = reply.items[2].bytes
        /\ result.v.data.end_id = reply.items[3].bytes
        /\ Len(result.v.data.consumers) = Len(PendingPairs)
        /\ \A i \in 1..Len(PendingPairs) :
              LET text == PendingPairs[i].items[2].bytes
                  info == result.v.data.consumers[i]
              IN /\ info.name = PendingPairs[i].items[1].bytes
                 /\ ~IsNumericText(text) => info.pending = usize(0)
                 /\ (IsDecimalText(text) /\ FitsUsize(text)) =>
                       info.pending = StripZeros(text)

\* (3, "1-0", "3-0", [[c2, "-1"], [c1, "2"]]) was decoded.
C17_Witness ==
    /\ target = "pending" /\ pc = "done"
    /\ reply = Value_Bulk(<<Value_Int(3), Value_Data(Id_1_0), Value_Data(Id_3_0),
                 Value_Bulk(<<Value_Bulk(<<Value_Data(Name_c2),
                                           Value_Data(<<"-", "1">>)>>),
                              Value_Bulk(<<Value_Data(Name_c1),
                                           Value_Data(<<"2">>)>>)>>)>>)
    /\ result = Ok(StreamPendingData(
                     [count |-> usize(3), start_id |-> Id_1_0,
                      end_id |-> Id_3_0,
                      consumers |-> <<[name |-> Name_c2, pending |-> usize(0),
                                       idle |-> usize(0)],
                                      [name |-> Name_c1, pending |-> usize(2),
                                       idle |-> usize(0)]>>]))

\* C13: a decode is a function of its input: the same decoder run twice on
\* the same reply, with other calls in between or not, returns the same
\* value (the order of its sequences included) or the same error, for
\* every reply it accepts, those whose mappings hold several pairs included.
C13_SameInputSameResult ==
    (target \in {"read_reply", "entry_reply"} /\ rerun # NoResult) =>
        rerun = result

(***************************************************************************)
(* Entry rows whose mapping holds any number of pairs.                     *)
(***************************************************************************)
IsIdMapping(v) ==
    /\ v.t = "Bulk" /\ Len(v.items) % 2 = 0
    /\ \A i \in 1..(Len(v.items) \div 2) :
          /\ v.items[2 * i - 1].t = "Data"
          /\ IsFieldMapping(v.items[2 * i])

IsIdMappingList(v) ==
    v.t = "Bulk" /\ \A i \in 1..Len(v.items) : IsIdMapping(v.items[i])

\* Whether sid is the StreamId of one of the pairs of the row, or the
\* default StreamId when the row has none.
TakenFromRow(sid, row) ==
    IF row.items = <<>> THEN sid = [id |-> <<>>, map |-> <<>>]
    ELSE \E j \in 1..(Len(row.items) \div 2) :
            /\ sid.id = row.items[2 * j - 1].bytes
            /\ MapHoldsFields(sid.map, row.items[2 * j])

OnePerRow(ids, rows) ==
    /\ Len(ids) = Len(rows)
    /\ \A i \in 1..Len(rows) : TakenFromRow(ids[i], rows[i])

\* A read reply whose outer mappings hold one stream each.
IsOneStreamPerRow(v) ==
    /\ v.t = "Bulk"
    /\ \A i \in 1..Len(v.items) :
          /\ v.items[i].t = "Bulk" /\ Len(v.items[i].items) = 2
          /\ v.items[i].items[1].t = "Data"
          /\ IsIdMappingList(v.items[i].items[2])

\* C20: the read, range and claim decoders produce exactly one StreamId per
\* row of an entry sequence whatever number of pairs the row's mapping
\* holds: the default StreamId for an empty mapping, the StreamId of one of
\* the pairs otherwise; no row is skipped, expanded or made an error.
C20_OneStreamIdPerRow ==
    /\ (target = "entry_reply" /\ IsIdMappingList(reply)) =>
          /\ result # NoResult =>
                result.kind = "Ok" /\ OnePerRow(result.v.ids, reply.items)
          /\ claim_reply # NoResult =>
                /\ claim_reply.kind = "Ok"
                /\ OnePerRow(claim_reply.v.ids, reply.items)
    /\ (target = "read_reply" /\ pc = "done" /\ IsOneStreamPerRow(reply)) =>
          /\ result.kind = "Ok"
          /\ Len(result.v.keys) = Len(reply.items)
          /\ \A i \in 1..Len(reply.items) :
                OnePerRow(result.v.keys[i].ids, reply.items[i].items[2].items)

\* A range reply of an empty mapping followed by a mapping of two pairs was
\* decoded by both decoders.
C20_Witness ==
    /\ target = "entry_reply" /\ pc = "done"
    /\ reply = Value_Bulk(<<IdRow_empty, IdRow_two>>)
    /\ result.kind = "Ok" /\ Len(result.v.ids) = 2
    /\ result.v.ids[1] = [id |-> <<>>, map |-> <<>>]
    /\ result.v.ids[2].id = Id_2_0
    /\ claim_reply.kind = "Ok" /\ Len(claim_reply.v.ids) = 2
    /\ claim_reply.v.ids[2].id = Id_1_0

(***************************************************************************)
(* The shape of the info replies on the wire.                              *)
(***************************************************************************)
IsWireMapping(v) ==
    /\ v.t = "Bulk" /\ Len(v.items) % 2 = 0
    /\ \A i \in 1..(Len(v.items) \div 2) : v.items[2 * i - 1].t = "Data"

Present(m, key) ==
    \E i \in 1..(Len(m.items) \div 2) : m.items[2 * i - 1].bytes = key

\* The value that follows the last occurrence of the key.
ValueOf(m, key) ==
    m.items[2 * (CHOOSE i \in 1..(Len(m.items) \div 2) :
                    /\ m.items[2 * i - 1].bytes = key
                    /\ \A j \in (i+1)..(Len(m.items) \div 2) :
                          m.items[2 * j - 1].bytes # key)]

\* The pairs of a mapping without those of one key.
RECURSIVE DropKey(_, _)
DropKey(items, key) ==
    IF Len(items) < 2 THEN items
    ELSE (IF items[1].bytes = key THEN <<>> ELSE SubSeq(items, 1, 2))
         \o DropKey(SubSeq(items, 3, Len(items)), key)

WithoutKey(m, key) == Value_Bulk(DropKey(m.items, key))

TextKeys == {Key_last_generated_id, Key_name, Key_last_delivered_id}
NumberKeys == {Key_radix_tree_nodes, Key_groups, Key_length, Key_pending,
               Key_idle, Key_consumers}
EntryKeys == {Key_first_entry, Key_last_entry}

StreamInfoKeys == {Key_last_generated_id, Key_radix_tree_nodes, Key_groups,
                   Key_length, Key_first_entry, Key_last_entry}
ConsumerInfoKeys == {Key_name, Key_pending, Key_idle}
GroupInfoKeys == {Key_name, Key_pending, Key_consumers, Key_last_delivered_id}

\* Whether the value is one its key's field type is decoded from.
Decodable(key, v) ==
    CASE key \in TextKeys -> v.t = "Data"
      [] key \in NumberKeys -> IsNumber(v)
      [] key \in EntryKeys -> IsSingleIdRow(v)

WellTyped(m, keys) ==
    /\ IsWireMapping(m)
    /\ \A key \in keys : Present(m, key) => Decodable(key, ValueOf(m, key))

\* Whether the field holds what its key's value decodes to, or the default
\* when the key is absent.
FieldHolds(m, key, field) ==
    CASE key \in TextKeys ->
            field = IF Present(m, key) THEN ValueOf(m, key).bytes ELSE <<>>
      [] key \in NumberKeys ->
            IF Present(m, key)
            THEN field = NumberOf(ValueOf(m, key))
            ELSE field = usize(0)
      [] key \in EntryKeys ->
            IF Present(m, key)
            THEN /\ field.id = ValueOf(m, key).items[1].bytes
                 /\ MapHoldsFields(field.map, ValueOf(m, key).items[2])
            ELSE field = [id |-> <<>>, map |-> <<>>]

StreamInfoHolds(m, r) ==
    /\ FieldHolds(m, Key_last_generated_id, r.last_generated_id)
    /\ FieldHolds(m, Key_radix_tree_nodes, r.radix_tree_keys)
    /\ FieldHolds(m, Key_groups, r.groups)
    /\ FieldHolds(m, Key_length, r.length)
    /\ FieldHolds(m, Key_first_entry, r.first_entry)
    /\ FieldHolds(m, Key_last_entry, r.last_entry)

ConsumerInfoHolds(m, r) ==
    /\ FieldHolds(m, Key_name, r.name)
    /\ FieldHolds(m, Key_pending, r.pending)
    /\ FieldHolds(m, Key_idle, r.idle)

GroupInfoHolds(m, r) ==
    /\ FieldHolds(m, Key_name, r.name)
    /\ FieldHolds(m, Key_pending, r.pending)
    /\ FieldHolds(m, Key_consumers, r.consumers)
    /\ FieldHolds(m, Key_last_delivered_id, r.last_delivered_id)

IsMappingList(v) ==
    v.t = "Bulk" /\ \A i \in 1..Len(v.items) : IsWireMapping(v.items[i])

EachWithoutKey(v, key) ==
    Value_Bulk([i \in 1..Len(v.items) |-> WithoutKey(v.items[i], key)])

InfoDecoded(t) == target = t /\ pc = "done"

\* C11: the info decoders set each field to the decoded value of its key
\* when the key is present and to the default when it is absent, succeed
\* for every subset of present keys, and return the same with or without a
\* key outside the known set; the list decoders yield one element per
\* mapping, in order.
C11_InfoFields ==
    /\ (InfoDecoded("info_stream") /\ WellTyped(reply, StreamInfoKeys)) =>
          result.kind = "Ok" /\ StreamInfoHolds(reply, result.v)
    /\ (InfoDecoded("info_stream") /\ IsWireMapping(reply)) =>
          result = StreamInfoStreamReply_from_redis_value(
                       WithoutKey(reply, Key_unknown))
    /\ (/\ InfoDecoded("info_consumers") /\ reply.t = "Bulk"
        /\ \A i \in 1..Len(reply.items) :
              WellTyped(reply.items[i], ConsumerInfoKeys)) =>
          /\ result.kind = "Ok"
          /\ Len(result.v.consumers) = Len(reply.items)
          /\ \A i \in 1..Len(reply.items) :
                ConsumerInfoHolds(reply.items[i], result.v.consumers[i])
    /\ (InfoDecoded("info_consumers") /\ IsMappingList(reply)) =>
          result = StreamInfoConsumersReply_from_redis_value(
                       EachWithoutKey(reply, Key_unknown))
    /\ (/\ InfoDecoded("info_groups") /\ reply.t = "Bulk"
        /\ \A i \in 1..Len(reply.items) :
              WellTyped(reply.items[i], GroupInfoKeys)) =>
          /\ result.kind = "Ok"
          /\ Len(result.v.groups) = Len(reply.items)
          /\ \A i \in 1..Len(reply.items) :
                GroupInfoHolds(reply.items[i], result.v.groups[i])
    /\ (InfoDecoded("info_groups") /\ IsMappingList(reply)) =>
          result = StreamInfoGroupsReply_from_redis_value(
                       EachWithoutKey(reply, Key_unknown))

\* A stream info without groups, with an unknown key, a length given as
\* text and a first entry was decoded.
C11_Witness ==
    /\ InfoDecoded("info_stream")
    /\ reply = Value_Bulk(Pair(Key_unknown, Value_Int(1))
                          \o Pair(Key_length, Value_Data(<<"7">>))
                          \o Pair(Key_first_entry, IdRow_1))
    /\ result.kind = "Ok"
    /\ result.v.groups = usize(0) /\ result.v.length = usize(7)
    /\ result.v.last_generated_id = <<>>
    /\ result.v.first_entry.id = Id_1_0
    /\ result.v.last_entry = [id |-> <<>>, map |-> <<>>]

\* Whether the value of a present key fails to convert to its field type.
Undecodable(key, v) ==
    CASE key \in TextKeys -> v.t # "Data"
      [] key \in NumberKeys ->
            \/ v.t \notin {"Int", "Data"}
            \/ v.t = "Data" /\ ~IsNumericText(v.bytes)
      [] key \in EntryKeys ->
            /\ v.t = "Bulk" /\ Len(v.items) >= 1
            /\ \/ v.items[1].t # "Data"
               \/ Len(v.items) >= 2 /\ v.items[2].t # "Bulk"

HasUndecodable(m, keys) ==
    /\ IsWireMapping(m)
    /\ \E key \in keys : Present(m, key) /\ Undecodable(key, ValueOf(m, key))

\* C14: no decode returns a partial result: when the value of a present
\* known key cannot be converted to its field type the whole decode returns
\* the conversion error, and in the list decoders one such element fails
\* the whole list whatever the elements before it hold.
C14_NoPartialResult ==
    /\ (InfoDecoded("info_stream") /\ HasUndecodable(reply, StreamInfoKeys)) =>
          result = Err(TypeError)
    /\ (/\ InfoDecoded("info_consumers") /\ reply.t = "Bulk"
        /\ \E i \in 1..Len(reply.items) :
              HasUndecodable(reply.items[i], ConsumerInfoKeys)) =>
          result = Err(TypeError)
    /\ (/\ InfoDecoded("info_groups") /\ reply.t = "Bulk"
        /\ \E i \in 1..Len(reply.items) :
              HasUndecodable(reply.items[i], GroupInfoKeys)) =>
          result = Err(TypeError)

\* A consumer list whose first element decodes and whose second holds a
\* pending count that is no number was decoded.
C14_Witness ==
    /\ InfoDecoded("info_consumers")
    /\ reply.t = "Bulk" /\ Len(reply.items) = 2
    /\ WellTyped(reply.items[1], ConsumerInfoKeys)
    /\ Present(reply.items[1], Key_pending)
    /\ HasUndecodable(reply.items[2], ConsumerInfoKeys)
    /\ result = Err(TypeError)

\* C18: in a stream info decode a present first-entry or last-entry value
\* is decoded by the single-pair rule: a sequence of two elements gives the
\* entry's id and field map, and a value that is no sequence, or a sequence
\* of fewer than two elements, is reported as an error.
C18_EntryShape ==
    (InfoDecoded("info_stream") /\ IsWireMapping(reply)) =>
        /\ (/\ Present(reply, Key_first_entry)
            /\ IsSingleIdRow(ValueOf(reply, Key_first_entry))
            /\ result.kind = "Ok") =>
              FieldHolds(reply, Key_first_entry, result.v.first_entry)
        /\ (/\ Present(reply, Key_last_entry)
            /\ IsSingleIdRow(ValueOf(reply, Key_last_entry))
            /\ result.kind = "Ok") =>
              FieldHolds(reply, Key_last_entry, result.v.last_entry)
        /\ \A key \in EntryKeys :
              (/\ Present(reply, key)
               /\ \/ ValueOf(reply, key).t # "Bulk"
                  \/ Len(ValueOf(reply, key).items) < 2) =>
                 result.kind = "Err"

====
